---- MODULE Spec2Model ----
(***************************************************************************)
(* Invoice memory layer: Recall -> Apply -> Decide (processInvoice) and    *)
(* Learn (applyHumanCorrection) over the four tables of the Knowledge      *)
(* Store.                                                                  *)
(*                                                                         *)
(* Conventions                                                             *)
(*  - A confidence is an exact rational <<numerator, denominator>> in      *)
(*    lowest terms (the code uses IEEE doubles; the model keeps the exact  *)
(*    value of every expression).                                          *)
(*  - An optional value is <<>> (null / undefined) or <<v>>.               *)
(*  - An optional string is "" when absent (the code tests it with !s).    *)
(*  - A text (rawText, reason, description) is a sequence of tokens;       *)
(*    String.includes is containment of a contiguous token run.            *)
(*  - A table is the sequence of its rows in insertion (rowid) order.      *)
(***************************************************************************)
EXTENDS Integers, Sequences, FiniteSets, TLC

VARIABLES vendor_memories, correction_memories, resolution_memories,
          processed_invoices, last, calls, db, databases, file

vars == <<vendor_memories, correction_memories, resolution_memories,
          processed_invoices, last, calls, db, databases, file>>

\* the connection of db/connection.ts: the module variable db (0 for null,
\* else the number of a Database object), the Database objects created so
\* far and the database file (<<>> when it does not exist).  Where the
\* connection is not modelled the four tables are what the store holds.
connection == <<db, databases, file>>

store == <<vendor_memories, correction_memories, resolution_memories,
           processed_invoices>>

(***************************************************************************)
(* Exact arithmetic                                                        *)
(***************************************************************************)
Abs(n) == IF n < 0 THEN 0 - n ELSE n

RECURSIVE GCD(_, _)
GCD(a, b) == IF b = 0 THEN a ELSE GCD(b, a % b)

Rat(n, d) == LET g == GCD(Abs(n), d) IN <<n \div g, d \div g>>

Dec(h)     == Rat(h, 100)
RAdd(a, b) == Rat(a[1] * b[2] + b[1] * a[2], a[2] * b[2])
RSub(a, b) == Rat(a[1] * b[2] - b[1] * a[2], a[2] * b[2])
RMul(a, b) == Rat(a[1] * b[1], a[2] * b[2])
RDivN(a, n) == Rat(a[1], a[2] * n)
RLe(a, b)  == a[1] * b[2] <= b[1] * a[2]
RLt(a, b)  == a[1] * b[2] < b[1] * a[2]
RMin(a, b) == IF RLe(a, b) THEN a ELSE b
RMax(a, b) == IF RLe(a, b) THEN b ELSE a

RECURSIVE RSum(_)
RSum(s) == IF s = <<>> THEN Rat(0, 1) ELSE RAdd(Head(s), RSum(Tail(s)))

(***************************************************************************)
(* Sequences and texts                                                     *)
(***************************************************************************)
Null     == <<>>
Some(v)  == <<v>>

RECURSIVE Filter(_, _)
Filter(s, keep) ==
    IF s = <<>> THEN <<>>
    ELSE (IF Head(s) \in keep THEN <<Head(s)>> ELSE <<>>) \o Filter(Tail(s), keep)

\* the indexes of s, ascending, whose element is in keep
Indexes(s, keep) == {i \in DOMAIN s : s[i] \in keep}

Range(s) == {s[i] : i \in DOMAIN s}

Min(S) == CHOOSE m \in S : \A n \in S : m <= n
Max(S) == CHOOSE m \in S : \A n \in S : n <= m

LowerCase ==
    [w \in {"Leistungsdatum", "VAT", "MwSt", "Recalculated", "Seefracht",
            "Shipping", "Skonto", "Inkl.", "Total", "EUR"} |->
        CASE w = "Leistungsdatum" -> "leistungsdatum"
          [] w = "VAT"            -> "vat"
          [] w = "MwSt"           -> "mwst"
          [] w = "Recalculated"   -> "recalculated"
          [] w = "Seefracht"      -> "seefracht"
          [] w = "Shipping"       -> "shipping"
          [] w = "Skonto"         -> "skonto"
          [] w = "Inkl."          -> "inkl."
          [] w = "Total"          -> "total"
          [] w = "EUR"            -> "eur"]

\* String.prototype.toLowerCase, word by word
toLowerCase(t) ==
    [i \in DOMAIN t |-> IF t[i] \in DOMAIN LowerCase THEN LowerCase[t[i]] ELSE t[i]]

\* String.prototype.includes
includes(hay, needle) ==
    \E i \in 0..(Len(hay) - Len(needle)) :
        \A j \in 1..Len(needle) : hay[i + j] = needle[j]

(***************************************************************************)
(* Correction memory (src/src/memory/correctionMemory.ts)                  *)
(***************************************************************************)
\* SELECT ... WHERE vendor_name = ? ORDER BY confidence DESC, as row ids;
\* rows of equal confidence keep their rowid order
RECURSIVE SortByConfidenceDesc(_, _)
SortByConfidenceDesc(cm, ids) ==
    IF ids = {} THEN <<>>
    ELSE LET best == Min({i \in ids : \A j \in ids :
                            RLe(cm[j].confidence, cm[i].confidence)})
         IN  <<best>> \o SortByConfidenceDesc(cm, ids \ {best})

getCorrectionMemories(cm, vendorName) ==
    SortByConfidenceDesc(cm, {i \in DOMAIN cm : cm[i].vendorName = vendorName})

\* pattern = <<>> stands for the omitted optional argument (and for '')
findMatchingCorrection(cm, vendorName, fieldName, pattern) ==
    LET ordered == getCorrectionMemories(cm, vendorName)
        matches == Filter(ordered,
            {i \in DOMAIN cm :
                /\ cm[i].fieldName = fieldName
                /\ (pattern # <<>> /\ cm[i].pattern # <<>>) =>
                      \/ includes(toLowerCase(cm[i].pattern), toLowerCase(pattern))
                      \/ includes(toLowerCase(pattern), toLowerCase(cm[i].pattern))})
    IN  IF Len(matches) > 0 THEN Some(matches[1]) ELSE Null

calculateCorrectionConfidenceInvertedFactor(successCount, failureCount) ==
    LET total == successCount + failureCount
        observationFactor == RMin(Rat(1, 1), Rat(3, total))
        adjustedRate == Rat(successCount, successCount + failureCount * 2)
    IN  IF total = 0 THEN Dec(50)
        ELSE RMin(Dec(95), RMax(Dec(10),
                 RAdd(Dec(30), RMul(RMul(adjustedRate, Dec(65)), observationFactor))))

calculateCorrectionConfidence(successCount, failureCount) ==
    LET total == successCount + failureCount
        observationFactor == RMin(Rat(1, 1), Rat(total, 3))
        adjustedRate == Rat(successCount, successCount + failureCount * 2)
    IN  IF total = 0 THEN Dec(50)
        ELSE RMin(Dec(95), RMax(Dec(10),
                 RAdd(Dec(30), RMul(RMul(adjustedRate, Dec(65)), observationFactor))))

\* correctionId is the row index; an unknown id changes nothing
reinforceCorrection(cm, correctionId) ==
    IF correctionId \notin DOMAIN cm THEN cm
    ELSE LET successCount == cm[correctionId].successCount + 1
             failureCount == cm[correctionId].failureCount
         IN  [cm EXCEPT ![correctionId].successCount = successCount,
                        ![correctionId].confidence =
                            calculateCorrectionConfidence(successCount, failureCount)]

weakenCorrection(cm, correctionId) ==
    IF correctionId \notin DOMAIN cm THEN cm
    ELSE LET successCount == cm[correctionId].successCount
             failureCount == cm[correctionId].failureCount + 1
         IN  [cm EXCEPT ![correctionId].failureCount = failureCount,
                        ![correctionId].confidence =
                            calculateCorrectionConfidence(successCount, failureCount)]

\* the row recordCorrection inserts when no correction memory matches
newCorrection(vendorName, fieldName, pattern, correctionType, correctionValue) ==
    [vendorName     |-> vendorName,
     fieldName      |-> fieldName,
     pattern        |-> pattern,
     correctionType |-> correctionType,
     correctionValue |-> correctionValue,
     confidence     |-> Dec(60),
     successCount   |-> 1,
     failureCount   |-> 0]

recordCorrection(cm, vendorName, fieldName, pattern, correctionType, correctionValue) ==
    LET existing == findMatchingCorrection(cm, vendorName, fieldName, pattern)
    IN  IF existing # Null THEN reinforceCorrection(cm, existing[1])
        ELSE Append(cm, newCorrection(vendorName, fieldName, pattern,
                                      correctionType, correctionValue))

(***************************************************************************)
(* Vendor memory (src/unnamed/part_002, memory/vendorMemory.ts)            *)
(***************************************************************************)
lower(w) == IF w \in DOMAIN LowerCase THEN LowerCase[w] ELSE w

\* SELECT * FROM vendor_memories WHERE vendor_name = ? (first row)
getVendorMemory(vm, vendorName) ==
    LET rows == {i \in DOMAIN vm : vm[i].vendorName = vendorName}
    IN  IF rows = {} THEN Null ELSE Some(vm[Min(rows)])

\* a row that counts its creation as a use
createVendorMemoryCountingUse(vm, vendorName) ==
    Append(vm, [vendorName      |-> vendorName,
                fieldMappings   |-> <<>>,
                taxBehavior     |-> Null,
                defaultCurrency |-> "",
                skuMappings     |-> <<>>,
                paymentTerms    |-> "",
                confidence      |-> Dec(50),
                usageCount      |-> 1])

createVendorMemory(vm, vendorName) ==
    Append(vm, [vendorName      |-> vendorName,
                fieldMappings   |-> <<>>,
                taxBehavior     |-> Null,
                defaultCurrency |-> "",
                skuMappings     |-> <<>>,
                paymentTerms    |-> "",
                confidence      |-> Dec(50),
                usageCount      |-> 0])

\* the table after "let memory = await getVendorMemory(..); if (!memory) create"
ensureVendorMemory(vm, vendorName) ==
    IF getVendorMemory(vm, vendorName) = Null
        THEN createVendorMemory(vm, vendorName) ELSE vm

calculateConfidence(successCount, failureCount) ==
    LET total == successCount + failureCount
        successRate == Rat(successCount, total)
        observationFactor == RMin(Rat(1, 1), Rat(total, 3))
    IN  IF total = 0 THEN Dec(50)
        ELSE RMin(Dec(95),
                  RAdd(Dec(30), RMul(RMul(successRate, Dec(65)), observationFactor)))

subMemoryConfidences(memory) ==
    [i \in DOMAIN memory.fieldMappings |-> memory.fieldMappings[i].confidence]
    \o (IF memory.taxBehavior # Null
            THEN <<memory.taxBehavior[1].confidence>> ELSE <<>>)
    \o [i \in DOMAIN memory.skuMappings |-> memory.skuMappings[i].confidence]

calculateOverallConfidence_vendorInvertedUsage(memory) ==
    LET confidences == subMemoryConfidences(memory)
        avg == RDivN(RSum(confidences), Len(confidences))
        usageFactor == RMin(Rat(1, 1), Rat(5, memory.usageCount))
    IN  IF Len(confidences) = 0 THEN Dec(50)
        ELSE RAdd(Dec(30), RMul(RMul(avg, Dec(70)), usageFactor))

calculateOverallConfidence_vendor(memory) ==
    LET confidences == subMemoryConfidences(memory)
        avg == RDivN(RSum(confidences), Len(confidences))
        usageFactor == RMin(Rat(1, 1), Rat(memory.usageCount, 5))
    IN  IF Len(confidences) = 0 THEN Dec(50)
        ELSE RAdd(Dec(30), RMul(RMul(avg, Dec(70)), usageFactor))

\* UPDATE vendor_memories SET <the fields of memory named in cols> WHERE vendor_name = ?
updateVendorRow(vm, vendorName, memory, cols) ==
    [i \in DOMAIN vm |->
        IF vm[i].vendorName # vendorName THEN vm[i]
        ELSE [c \in DOMAIN vm[i] |-> IF c \in cols THEN memory[c] ELSE vm[i][c]]]

\* the in-memory part of updateFieldMapping: the row read by getVendorMemory
\* with the mapping added or recounted, usageCount++ and the aggregate recomputed
withFieldMapping(memory, sourceLabel, targetField, success) ==
    LET found == {i \in DOMAIN memory.fieldMappings :
                    /\ lower(memory.fieldMappings[i].sourceLabel) = lower(sourceLabel)
                    /\ memory.fieldMappings[i].targetField = targetField}
        mappings ==
            IF found # {}
            THEN LET i == Min(found)
                     m == memory.fieldMappings[i]
                     s == IF success THEN m.successCount + 1 ELSE m.successCount
                     f == IF success THEN m.failureCount ELSE m.failureCount + 1
                 IN  [memory.fieldMappings EXCEPT
                        ![i] = [m EXCEPT !.successCount = s, !.failureCount = f,
                                         !.confidence = calculateConfidence(s, f)]]
            ELSE Append(memory.fieldMappings,
                        [sourceLabel  |-> sourceLabel,
                         targetField  |-> targetField,
                         confidence   |-> IF success THEN Dec(60) ELSE Dec(30),
                         successCount |-> IF success THEN 1 ELSE 0,
                         failureCount |-> IF success THEN 0 ELSE 1])
        m1 == [memory EXCEPT !.fieldMappings = mappings,
                             !.usageCount = memory.usageCount + 1]
    IN  [m1 EXCEPT !.confidence = calculateOverallConfidence_vendor(m1)]

updateFieldMapping(vm, vendorName, sourceLabel, targetField, success) ==
    LET vm1 == ensureVendorMemory(vm, vendorName)
        written(memory) ==
            updateVendorRow(vm1, vendorName,
                            withFieldMapping(memory, sourceLabel, targetField, success),
                            {"fieldMappings", "confidence", "usageCount"})
    IN  written(getVendorMemory(vm1, vendorName)[1])

updateTaxBehaviorUncapped(vm, vendorName, isInclusive, defaultRate, success) ==
    LET vm1 == ensureVendorMemory(vm, vendorName)
        memory == getVendorMemory(vm1, vendorName)[1]
        tax ==
            IF memory.taxBehavior # Null
            THEN LET t == memory.taxBehavior[1]
                 IN  [t EXCEPT !.confidence =
                        IF success THEN RAdd(t.confidence, Dec(10))
                                   ELSE RMax(Dec(10), RSub(t.confidence, Dec(20)))]
            ELSE [isInclusive |-> isInclusive,
                  defaultRate |-> defaultRate,
                  confidence  |-> IF success THEN Dec(60) ELSE Dec(30)]
        m1 == [memory EXCEPT !.taxBehavior = Some(tax),
                             !.usageCount = memory.usageCount + 1]
        m2 == [m1 EXCEPT !.confidence = calculateOverallConfidence_vendor(m1)]
    IN  updateVendorRow(vm1, vendorName, m2,
                        {"taxBehavior", "confidence", "usageCount"})

updateTaxBehavior(vm, vendorName, isInclusive, defaultRate, success) ==
    LET vm1 == ensureVendorMemory(vm, vendorName)
        memory == getVendorMemory(vm1, vendorName)[1]
        tax ==
            IF memory.taxBehavior # Null
            THEN LET t == memory.taxBehavior[1]
                 IN  [t EXCEPT !.confidence =
                        IF success THEN RMin(Rat(1, 1), RAdd(t.confidence, Dec(10)))
                                   ELSE RMax(Dec(10), RSub(t.confidence, Dec(20)))]
            ELSE [isInclusive |-> isInclusive,
                  defaultRate |-> defaultRate,
                  confidence  |-> IF success THEN Dec(60) ELSE Dec(30)]
        m1 == [memory EXCEPT !.taxBehavior = Some(tax),
                             !.usageCount = memory.usageCount + 1]
        m2 == [m1 EXCEPT !.confidence = calculateOverallConfidence_vendor(m1)]
    IN  updateVendorRow(vm1, vendorName, m2,
                        {"taxBehavior", "confidence", "usageCount"})

updateDefaultCurrency(vm, vendorName, currency) ==
    LET vm1 == ensureVendorMemory(vm, vendorName)
        memory == getVendorMemory(vm1, vendorName)[1]
        m1 == [memory EXCEPT !.defaultCurrency = currency,
                             !.usageCount = memory.usageCount + 1]
    IN  updateVendorRow(vm1, vendorName, m1, {"defaultCurrency", "usageCount"})

\* String.prototype.trim: the model's descriptions carry no blank tokens
trim(t) == t

updateSkuMapping(vm, vendorName, description, sku, success) ==
    LET vm1 == ensureVendorMemory(vm, vendorName)
        memory == getVendorMemory(vm1, vendorName)[1]
        normalizedDesc == trim(toLowerCase(description))
        found == {i \in DOMAIN memory.skuMappings :
                    \/ includes(toLowerCase(memory.skuMappings[i].description),
                                normalizedDesc)
                    \/ includes(normalizedDesc,
                                toLowerCase(memory.skuMappings[i].description))}
        mappings ==
            IF found # {}
            THEN LET i == Min(found)
                     m == memory.skuMappings[i]
                 IN  [memory.skuMappings EXCEPT ![i] =
                        IF success
                        THEN [m EXCEPT !.usageCount = m.usageCount + 1,
                                       !.confidence =
                                          RMin(Rat(1, 1), RAdd(m.confidence, Dec(10)))]
                        ELSE [m EXCEPT !.confidence =
                                          RMax(Dec(10), RSub(m.confidence, Dec(20)))]]
            ELSE Append(memory.skuMappings,
                        [description |-> normalizedDesc,
                         sku         |-> sku,
                         confidence  |-> IF success THEN Dec(60) ELSE Dec(30),
                         usageCount  |-> 1])
        m1 == [memory EXCEPT !.skuMappings = mappings,
                             !.usageCount = memory.usageCount + 1]
        m2 == [m1 EXCEPT !.confidence = calculateOverallConfidence_vendor(m1)]
    IN  updateVendorRow(vm1, vendorName, m2,
                        {"skuMappings", "confidence", "usageCount"})

\* stored terms that later corrections do not replace
updatePaymentTermsKeepsFirst(vm, vendorName, terms) ==
    LET vm1 == ensureVendorMemory(vm, vendorName)
        memory == getVendorMemory(vm1, vendorName)[1]
        m1 == [memory EXCEPT !.paymentTerms = IF @ = "" THEN terms ELSE @,
                             !.usageCount = memory.usageCount + 1]
    IN  updateVendorRow(vm1, vendorName, m1, {"paymentTerms", "usageCount"})

updatePaymentTerms(vm, vendorName, terms) ==
    LET vm1 == ensureVendorMemory(vm, vendorName)
        memory == getVendorMemory(vm1, vendorName)[1]
        m1 == [memory EXCEPT !.paymentTerms = terms,
                             !.usageCount = memory.usageCount + 1]
    IN  updateVendorRow(vm1, vendorName, m1, {"paymentTerms", "usageCount"})

recordVendorUsage(vm, vendorName) ==
    [i \in DOMAIN vm |->
        IF vm[i].vendorName = vendorName
            THEN [vm[i] EXCEPT !.usageCount = vm[i].usageCount + 1] ELSE vm[i]]

(***************************************************************************)
(* Resolution memory (src/unnamed/part_002, memory/resolutionMemory.ts)    *)
(***************************************************************************)
\* an upsert keyed by vendor and field in place of the INSERT
recordResolutionUpsert(rm, invoiceId, vendorName, discrepancyType, originalValue, correctedValue, resolution, humanFeedback) ==
    LET row == [invoiceId       |-> invoiceId,
                vendorName      |-> vendorName,
                discrepancyType |-> discrepancyType,
                originalValue   |-> originalValue,
                correctedValue  |-> correctedValue,
                resolution      |-> resolution,
                humanFeedback   |-> humanFeedback]
        same == {i \in DOMAIN rm : /\ rm[i].vendorName = vendorName
                                   /\ rm[i].discrepancyType = discrepancyType}
    IN  IF same = {} THEN Append(rm, row)
        ELSE [i \in DOMAIN rm |-> IF i \in same THEN row ELSE rm[i]]

recordResolution(rm, invoiceId, vendorName, discrepancyType, originalValue, correctedValue, resolution, humanFeedback) ==
    Append(rm, [invoiceId       |-> invoiceId,
                vendorName      |-> vendorName,
                discrepancyType |-> discrepancyType,
                originalValue   |-> originalValue,
                correctedValue  |-> correctedValue,
                resolution      |-> resolution,
                humanFeedback   |-> humanFeedback])

\* SELECT ... WHERE vendor_name = ? ORDER BY created_at DESC: newest first
Reverse(s) == [i \in DOMAIN s |-> s[Len(s) + 1 - i]]

getResolutionMemories(rm, vendorName) ==
    Reverse(Filter(rm, {r \in Range(rm) : r.vendorName = vendorName}))

(***************************************************************************)
(* Duplicate guard (src/src/utils/auditTrail.ts, utils/duplicateDetection) *)
(*                                                                         *)
(* An invoice date is [fmt, day]: its textual format and the calendar day  *)
(* it denotes, counted on one day line.                                    *)
(***************************************************************************)
\* md5 of `${vendor}|${invoiceNumber}|${grossTotal}`: equal exactly when the
\* three parts are equal
generateInvoiceHash(invoice) ==
    <<invoice.vendor, invoice.fields.invoiceNumber, invoice.fields.grossTotal>>

\* DD.MM.YYYY, DD-MM-YYYY and YYYY-MM-DD parse; anything else is null
parseDate(dateStr) ==
    IF dateStr.fmt \in {"DD.MM.YYYY", "DD-MM-YYYY", "YYYY-MM-DD"}
        THEN Some(dateStr.day) ELSE Null

checkDuplicateEitherNear(pi, invoice) ==
    LET rows == {i \in DOMAIN pi :
                    /\ pi[i].vendorName = invoice.vendor
                    /\ pi[i].invoiceNumber = invoice.fields.invoiceNumber}
        existingInvoice == pi[Max(rows)]
        existingDate == parseDate(existingInvoice.invoiceDate)
        newDate == parseDate(invoice.fields.invoiceDate)
        daysDiff == Abs(newDate[1] - existingDate[1])
        amountDiff == Abs(existingInvoice.grossTotal - invoice.fields.grossTotal)
    IN  IF rows = {} THEN Null
        ELSE IF /\ existingDate # Null /\ newDate # Null
                /\ (daysDiff <= 7 \/ amountDiff * 100 <= existingInvoice.grossTotal)
             THEN Some(existingInvoice)
        ELSE IF existingInvoice.hash = generateInvoiceHash(invoice)
             THEN Some(existingInvoice)
        ELSE Null

\* ORDER BY processed_at DESC, first row only: the newest matching entry.
\* tolerance = grossTotal * 0.01, compared here as amountDiff * 100 <= grossTotal
checkDuplicate(pi, invoice) ==
    LET rows == {i \in DOMAIN pi :
                    /\ pi[i].vendorName = invoice.vendor
                    /\ pi[i].invoiceNumber = invoice.fields.invoiceNumber}
        existingInvoice == pi[Max(rows)]
        existingDate == parseDate(existingInvoice.invoiceDate)
        newDate == parseDate(invoice.fields.invoiceDate)
        daysDiff == Abs(newDate[1] - existingDate[1])
        amountDiff == Abs(existingInvoice.grossTotal - invoice.fields.grossTotal)
    IN  IF rows = {} THEN Null
        ELSE IF /\ existingDate # Null /\ newDate # Null
                /\ daysDiff <= 7
                /\ amountDiff * 100 <= existingInvoice.grossTotal
             THEN Some(existingInvoice)
        ELSE IF existingInvoice.hash = generateInvoiceHash(invoice)
             THEN Some(existingInvoice)
        ELSE Null

\* an upsert keyed by vendor and number in place of the INSERT
recordProcessedInvoiceUpsert(pi, invoice) ==
    IF \E i \in DOMAIN pi : /\ pi[i].vendorName = invoice.vendor
                             /\ pi[i].invoiceNumber = invoice.fields.invoiceNumber
    THEN [i \in DOMAIN pi |->
            IF /\ pi[i].vendorName = invoice.vendor
               /\ pi[i].invoiceNumber = invoice.fields.invoiceNumber
            THEN [pi[i] EXCEPT !.invoiceDate = invoice.fields.invoiceDate,
                               !.grossTotal = invoice.fields.grossTotal,
                               !.hash = generateInvoiceHash(invoice)]
            ELSE pi[i]]
    ELSE Append(pi, [id            |-> Len(pi) + 1,
                     invoiceNumber |-> invoice.fields.invoiceNumber,
                     vendorName    |-> invoice.vendor,
                     invoiceDate   |-> invoice.fields.invoiceDate,
                     grossTotal    |-> invoice.fields.grossTotal,
                     hash          |-> generateInvoiceHash(invoice)])

recordProcessedInvoice(pi, invoice) ==
    Append(pi, [id            |-> Len(pi) + 1,
                invoiceNumber |-> invoice.fields.invoiceNumber,
                vendorName    |-> invoice.vendor,
                invoiceDate   |-> invoice.fields.invoiceDate,
                grossTotal    |-> invoice.fields.grossTotal,
                hash          |-> generateInvoiceHash(invoice)])

(***************************************************************************)
(* Recall (src/src/services/recall.ts)                                     *)
(***************************************************************************)
recallMemories(vm, cm, rm, pi, invoice) ==
    [vendorMemory       |-> getVendorMemory(vm, invoice.vendor),
     correctionMemories |-> LET ids == getCorrectionMemories(cm, invoice.vendor)
                            IN  [i \in DOMAIN ids |-> cm[ids[i]]],
     resolutionMemories |-> getResolutionMemories(rm, invoice.vendor),
     potentialDuplicate |-> checkDuplicate(pi, invoice)]

RECURSIVE RPow(_, _)
RPow(r, n) == IF n = 0 THEN Rat(1, 1) ELSE RMul(r, RPow(r, n - 1))

\* the time since lastUsed is counted in whole days (the code divides the
\* millisecond difference of the two clock readings by the length of a day)
applyConfidenceDecayGrowing(confidence, daysSinceLastUse) ==
    RMax(Dec(10), RMul(confidence, RPow(Dec(101), daysSinceLastUse)))

applyConfidenceDecay(confidence, daysSinceLastUse) ==
    RMax(Dec(10), RMul(confidence, RPow(Dec(99), daysSinceLastUse)))

(***************************************************************************)
(* Apply (src/src/services/apply.ts)                                       *)
(*                                                                         *)
(* rawText is a sequence of tokens [k, s, v]: k = "word" with text s,      *)
(* "dmy" / "ymd" a date written D.M.Y or Y-M-D with digit groups v,        *)
(* "num" an amount with parsed value v[1], "terms" a Skonto / discount     *)
(* phrase with text s.  An ISO date is the tuple <<year, month, day>>.     *)
(***************************************************************************)
AUTO_APPLY_THRESHOLD == Dec(85)

Word(s)        == [k |-> "word",  s |-> s,  v |-> <<>>]
DateDMY(d,m,y) == [k |-> "dmy",   s |-> "", v |-> <<d, m, y>>]
DateYMD(y,m,d) == [k |-> "ymd",   s |-> "", v |-> <<y, m, d>>]
Amount(n)      == [k |-> "num",   s |-> "", v |-> <<n>>]
TermsPhrase(s) == [k |-> "terms", s |-> s,  v |-> <<>>]

normalizeLineItems(items) ==
    [i \in DOMAIN items |->
        [sku         |-> IF items[i].sku = "" THEN "UNKNOWN" ELSE items[i].sku,
         description |-> items[i].description,
         qty         |-> items[i].qty,
         unitPrice   |-> items[i].unitPrice,
         amount      |-> items[i].qty * items[i].unitPrice]]

\* D.M.Y with a two-digit year gets the century 20; Y-M-D is returned as is
convertToISODateKeepsOrder(tok) ==
    tok.v

convertToISODate(tok) ==
    IF tok.k = "dmy"
    THEN <<IF tok.v[3] < 100 THEN 2000 + tok.v[3] ELSE tok.v[3], tok.v[2], tok.v[1]>>
    ELSE tok.v

\* first `label <date>` in D.M.Y form, else first in Y-M-D form
extractFromRawText(rawText, label) ==
    LET hits(kind) == {i \in 1..(Len(rawText) - 1) :
                          /\ rawText[i].k = "word"
                          /\ lower(rawText[i].s) = lower(label)
                          /\ rawText[i + 1].k = kind}
    IN  IF hits("dmy") # {} THEN Some(convertToISODate(rawText[Min(hits("dmy")) + 1]))
        ELSE IF hits("ymd") # {} THEN Some(convertToISODate(rawText[Min(hits("ymd")) + 1]))
        ELSE Null

CurrencyCodes == {"eur", "usd", "gbp", "chf"}
UpperCase(w)  == CASE w = "eur" -> "EUR" [] w = "usd" -> "USD"
                   [] w = "gbp" -> "GBP" [] w = "chf" -> "CHF" [] OTHER -> w

\* /Currency[:\s]+([A-Z]{3})/i first, then the first EUR|USD|GBP|CHF word
extractCurrencyFromRawText(rawText) ==
    LET labelled == {i \in 1..(Len(rawText) - 1) :
                        /\ rawText[i].k = "word" /\ lower(rawText[i].s) = "currency"
                        /\ rawText[i + 1].k = "word"
                        /\ lower(rawText[i + 1].s) \in CurrencyCodes}
        bare == {i \in DOMAIN rawText :
                    rawText[i].k = "word" /\ lower(rawText[i].s) \in CurrencyCodes}
    IN  IF labelled # {} THEN UpperCase(lower(rawText[Min(labelled) + 1].s))
        ELSE IF bare # {} THEN UpperCase(lower(rawText[Min(bare)].s))
        ELSE ""

extractPaymentTerms(rawText) ==
    LET hits == {i \in DOMAIN rawText : rawText[i].k = "terms"}
    IN  IF hits # {} THEN rawText[Min(hits)].s ELSE ""

\* Total / Gesamt / Brutto followed by an amount other than currentGross
recalculateGrossFromRawText(rawText, currentGross) ==
    LET hits(label) == {i \in 1..(Len(rawText) - 1) :
                          /\ rawText[i].k = "word" /\ lower(rawText[i].s) = label
                          /\ rawText[i + 1].k = "num"}
        amountOf(label) == rawText[Min(hits(label)) + 1].v[1]
        ok(label) == hits(label) # {} /\ amountOf(label) # currentGross
    IN  IF ok("total") THEN Some(amountOf("total"))
        ELSE IF ok("gesamt") THEN Some(amountOf("gesamt"))
        ELSE IF ok("brutto") THEN Some(amountOf("brutto"))
        ELSE Null

vatInclusiveIndicators == {"inkl.", "incl.", "included", "inclusive"}

hasVatInclusive(rawText) ==
    \E i \in DOMAIN rawText :
        rawText[i].k = "word" /\ lower(rawText[i].s) \in vatInclusiveIndicators

RECURSIVE bestPOMatch(_, _, _, _)
bestPOMatch(vendorPOs, invoiceSKUs, n, bestMatch) ==
    IF n > Len(vendorPOs) THEN bestMatch
    ELSE LET po == vendorPOs[n]
             poSKUs == {po.lineItems[i].sku : i \in DOMAIN po.lineItems}
             matchingSKUs == Filter(invoiceSKUs, poSKUs)
             skuMatchRatio == Rat(Len(matchingSKUs),
                                  IF Len(invoiceSKUs) >= Len(po.lineItems)
                                      THEN Len(invoiceSKUs) ELSE Len(po.lineItems))
             uniquenessBonus == IF Len(vendorPOs) = 1 THEN Dec(20) ELSE Dec(0)
             confidence == RMin(Dec(95),
                                RAdd(RAdd(Dec(50), RMul(skuMatchRatio, Dec(30))),
                                     uniquenessBonus))
             next == IF /\ Len(matchingSKUs) > 0
                        /\ (bestMatch = Null \/ RLt(bestMatch[1].confidence, confidence))
                     THEN Some([poNumber |-> po.poNumber, confidence |-> confidence,
                                reasoning |-> "sku_overlap"])
                     ELSE bestMatch
         IN  bestPOMatch(vendorPOs, invoiceSKUs, n + 1, next)

matchPurchaseOrder(invoice, purchaseOrders) ==
    LET vendorPOs == Filter(purchaseOrders,
                            {po \in Range(purchaseOrders) : po.vendor = invoice.vendor})
        skus == [i \in DOMAIN invoice.fields.lineItems |-> invoice.fields.lineItems[i].sku]
        invoiceSKUs == Filter(skus, Range(skus) \ {""})
        bestMatch == bestPOMatch(vendorPOs, invoiceSKUs, 1, Null)
    IN  IF Len(vendorPOs) = 0 THEN Null
        ELSE IF bestMatch = Null /\ Len(vendorPOs) = 1
             THEN Some([poNumber |-> vendorPOs[1].poNumber, confidence |-> Dec(60),
                        reasoning |-> "only_po_for_vendor"])
        ELSE bestMatch

\* the tax of a VAT-inclusive gross total
recalculatedTaxKeepsNet(recalculatedGross, netTotal) ==
    recalculatedGross

recalculatedTax(recalculatedGross, netTotal) ==
    recalculatedGross - netTotal

\* a value of a correction, tagged with its type
VNull      == <<"null">>
VStr(x)    == <<"str", x>>
VNum(x)    == <<"num", x>>
VDate(x)   == <<"date", x>>

Correction(field, originalValue, proposedValue, confidence, reasoning, autoApplied) ==
    [field |-> field, originalValue |-> originalValue, proposedValue |-> proposedValue,
     confidence |-> confidence, reasoning |-> reasoning, autoApplied |-> autoApplied]

\* step 4 of applyMemories: line items i..n, in order
RECURSIVE applySkuMappings(_, _, _)
applySkuMappings(acc, skuMappings, i) ==
    IF i > Len(acc.n.lineItems) THEN acc
    ELSE LET item == acc.n.lineItems[i]
             found == {k \in DOMAIN skuMappings :
                          \/ includes(toLowerCase(item.description),
                                      toLowerCase(skuMappings[k].description))
                          \/ includes(toLowerCase(skuMappings[k].description),
                                      toLowerCase(item.description))}
             skuMapping == skuMappings[Min(found)]
             auto == RLe(AUTO_APPLY_THRESHOLD, skuMapping.confidence)
             next ==
                IF (item.sku = "" \/ item.sku = "UNKNOWN") /\ found # {}
                THEN [n |-> IF auto
                              THEN [acc.n EXCEPT !.lineItems[i].sku = skuMapping.sku]
                              ELSE acc.n,
                      c |-> Append(acc.c,
                              Correction(<<"lineItems", i - 1, "sku">>,
                                         VStr(item.sku), VStr(skuMapping.sku),
                                         skuMapping.confidence, "sku_mapping", auto))]
                ELSE acc
         IN  applySkuMappings(next, skuMappings, i + 1)

\* "Start with a copy of the original fields"
normalized(invoice) ==
    [invoiceId     |-> invoice.invoiceId,
     vendor        |-> invoice.vendor,
     invoiceNumber |-> invoice.fields.invoiceNumber,
     invoiceDate   |-> invoice.fields.invoiceDate,
     serviceDate   |-> invoice.fields.serviceDate,
     currency      |-> IF invoice.fields.currency = "" THEN "EUR"
                       ELSE invoice.fields.currency,
     poNumber      |-> invoice.fields.poNumber,
     netTotal      |-> invoice.fields.netTotal,
     taxRate       |-> invoice.fields.taxRate,
     taxTotal      |-> invoice.fields.taxTotal,
     grossTotal    |-> invoice.fields.grossTotal,
     lineItems     |-> normalizeLineItems(invoice.fields.lineItems),
     discountTerms |-> invoice.fields.discountTerms]

applyMemories(invoice, memories, purchaseOrders) ==
    LET f == invoice.fields
        n0 == normalized(invoice)
        a0 == [n |-> n0, c |-> <<>>]
        hasVM == memories.vendorMemory # Null
        vendorMemory == memories.vendorMemory[1]
        \* 1. serviceDate from a learned field mapping
        applyFieldMapping(a) ==
              IF ~hasVM \/ a.n.serviceDate # Null THEN a
              ELSE LET found == {i \in DOMAIN vendorMemory.fieldMappings :
                                   vendorMemory.fieldMappings[i].targetField = "serviceDate"}
                       serviceDateMapping == vendorMemory.fieldMappings[Min(found)]
                       extractedDate == extractFromRawText(invoice.rawText,
                                                           serviceDateMapping.sourceLabel)
                       auto == RLe(AUTO_APPLY_THRESHOLD, serviceDateMapping.confidence)
                   IN  IF found = {} \/ extractedDate = Null THEN a
                       ELSE [n |-> IF auto THEN [a.n EXCEPT !.serviceDate = extractedDate[1]]
                                           ELSE a.n,
                             c |-> Append(a.c,
                                     Correction(<<"serviceDate">>, VNull,
                                                VDate(extractedDate[1]),
                                                serviceDateMapping.confidence,
                                                "field_mapping", auto))]
        \* 2. VAT-inclusive recalculation
        applyTaxBehavior(a) ==
              IF ~hasVM \/ vendorMemory.taxBehavior = Null THEN a
              ELSE LET tax == vendorMemory.taxBehavior[1]
                       recalculatedGross ==
                           recalculateGrossFromRawText(invoice.rawText, a.n.grossTotal)
                       tax2 == recalculatedTax(recalculatedGross[1], a.n.netTotal)
                       auto == RLe(AUTO_APPLY_THRESHOLD, tax.confidence)
                   IN  IF \/ ~tax.isInclusive
                          \/ ~hasVatInclusive(invoice.rawText)
                          \/ recalculatedGross = Null
                          \/ recalculatedGross[1] = 0
                          \/ recalculatedGross[1] = a.n.grossTotal
                       THEN a
                       ELSE [n |-> IF auto THEN [a.n EXCEPT
                                                   !.grossTotal = recalculatedGross[1],
                                                   !.taxTotal = tax2]
                                           ELSE a.n,
                             c |-> a.c \o
                                   <<Correction(<<"grossTotal">>, VNum(a.n.grossTotal),
                                                VNum(recalculatedGross[1]),
                                                tax.confidence, "vat_inclusive", auto),
                                     Correction(<<"taxTotal">>, VNum(a.n.taxTotal),
                                                VNum(tax2),
                                                tax.confidence, "vat_tax", auto)>>]
        \* 3. currency from vendor memory, else from rawText
        applyCurrency(a) ==
              IF ~hasVM \/ f.currency # "" THEN a
              ELSE IF vendorMemory.defaultCurrency # ""
                   THEN [n |-> a.n,
                         c |-> Append(a.c,
                                 Correction(<<"currency">>, VNull,
                                            VStr(vendorMemory.defaultCurrency),
                                            Dec(75), "vendor_default_currency", FALSE))]
              ELSE LET extractedCurrency == extractCurrencyFromRawText(invoice.rawText)
                   IN  IF extractedCurrency = "" THEN a
                       ELSE [n |-> [a.n EXCEPT !.currency = extractedCurrency],
                             c |-> Append(a.c,
                                     Correction(<<"currency">>, VNull,
                                                VStr(extractedCurrency),
                                                Dec(70), "rawtext_currency", FALSE))]
        \* 4. SKU mappings
        applySkus(a) ==
              IF ~hasVM THEN a ELSE applySkuMappings(a, vendorMemory.skuMappings, 1)
        \* 5. stored payment terms
        applyPaymentTerms(a) ==
              IF hasVM /\ vendorMemory.paymentTerms # "" /\ a.n.discountTerms = ""
              THEN [a EXCEPT !.n.discountTerms = vendorMemory.paymentTerms]
              ELSE a
        \* 6. payment terms from rawText
        applyRawTextTerms(a) ==
              LET extractedTerms == extractPaymentTerms(invoice.rawText)
              IN  IF a.n.discountTerms # "" \/ extractedTerms = "" THEN a
                  ELSE [n |-> [a.n EXCEPT !.discountTerms = extractedTerms],
                        c |-> Append(a.c,
                                Correction(<<"discountTerms">>, VNull, VStr(extractedTerms),
                                           Dec(80), "rawtext_terms", FALSE))]
        \* 7. purchase-order match
        applyPOMatch(a) ==
              LET matchedPO == matchPurchaseOrder(invoice, purchaseOrders)
                  auto == RLe(AUTO_APPLY_THRESHOLD, matchedPO[1].confidence)
              IN  IF a.n.poNumber # "" \/ Len(purchaseOrders) = 0 \/ matchedPO = Null
                  THEN a
                  ELSE [n |-> IF auto THEN [a.n EXCEPT !.poNumber = matchedPO[1].poNumber]
                                      ELSE a.n,
                        c |-> Append(a.c,
                                Correction(<<"poNumber">>, VNull, VStr(matchedPO[1].poNumber),
                                           matchedPO[1].confidence, matchedPO[1].reasoning,
                                           auto))]
        applied == applyPOMatch(applyRawTextTerms(applyPaymentTerms(applySkus(
                       applyCurrency(applyTaxBehavior(applyFieldMapping(a0)))))))
    IN  [normalizedInvoice |-> applied.n, proposedCorrections |-> applied.c]

(***************************************************************************)
(* Decide (src/unnamed/part_001, services/decide.ts)                       *)
(*                                                                         *)
(* An escalation reason is a tuple: its kind and the values interpolated   *)
(* into the message.                                                       *)
(***************************************************************************)
AUTO_ACCEPT_THRESHOLD  == Dec(85)
AUTO_CORRECT_THRESHOLD == Dec(60)
ESCALATE_THRESHOLD     == Dec(40)

NEW_VENDOR_REASON  == <<"New or low-history vendor - insufficient learning data for auto-decisions">>
CONFLICT_REASON    == <<"Conflicting patterns detected in memory - human judgment required">>
DuplicateReason(p) == <<"Potential duplicate detected", p.invoiceNumber, p.id>>

isNewVendorNoNullCheck(memories) ==
    memories.vendorMemory # Null /\ memories.vendorMemory[1].usageCount < 2

isNewVendor(memories) ==
    memories.vendorMemory = Null \/ memories.vendorMemory[1].usageCount < 2

hasConflictingMemories(memories) ==
    LET approved == Len(Filter(memories.resolutionMemories,
                        {r \in Range(memories.resolutionMemories) : r.resolution = "approved"}))
        rejected == Len(Filter(memories.resolutionMemories,
                        {r \in Range(memories.resolutionMemories) : r.resolution = "rejected"}))
    IN  \/ /\ Len(memories.resolutionMemories) >= 3
           /\ rejected * 10 > 4 * (approved + rejected)
        \/ \E i \in DOMAIN memories.correctionMemories :
              memories.correctionMemories[i].failureCount
                  > memories.correctionMemories[i].successCount

checkMissingFields(invoice, corrections) ==
    IF invoice.currency = "" /\ ~\E i \in DOMAIN corrections :
                                    corrections[i].field = <<"currency">>
        THEN <<"currency">> ELSE <<>>

\* the score without the final clamp
calculateOverallConfidence_decideUnclamped(originalConfidence, memories, corrections) ==
    LET autoApplied == Filter(corrections, {c \in Range(corrections) : c.autoApplied})
        boosted(s) == IF Len(autoApplied) > 0
                      THEN RDivN(RAdd(s, RDivN(RSum([i \in DOMAIN autoApplied |->
                                                       autoApplied[i].confidence]),
                                               Len(autoApplied))), 2)
                      ELSE s
        pending(s) == IF \E i \in DOMAIN corrections : ~corrections[i].autoApplied
                      THEN RMul(s, Dec(90)) ELSE s
        duplicate(s) == IF memories.potentialDuplicate # Null THEN RMul(s, Dec(50)) ELSE s
        newVendor(s) == IF isNewVendor(memories) THEN RMul(s, Dec(80)) ELSE s
    IN  newVendor(duplicate(pending(boosted(
            IF memories.vendorMemory # Null
            THEN RAdd(originalConfidence, RMul(memories.vendorMemory[1].confidence, Dec(10)))
            ELSE originalConfidence))))

calculateOverallConfidence_decide(originalConfidence, memories, corrections) ==
    LET s0 == originalConfidence
        s1 == IF memories.vendorMemory # Null
              THEN RMin(Rat(1, 1),
                        RAdd(s0, RMul(memories.vendorMemory[1].confidence, Dec(10))))
              ELSE s0
        autoApplied == Filter(corrections,
                              {c \in Range(corrections) : c.autoApplied})
        avgCorrectionConfidence ==
            RDivN(RSum([i \in DOMAIN autoApplied |-> autoApplied[i].confidence]),
                  Len(autoApplied))
        s2 == IF Len(autoApplied) > 0
              THEN RDivN(RAdd(s1, avgCorrectionConfidence), 2) ELSE s1
        s3 == IF \E i \in DOMAIN corrections : ~corrections[i].autoApplied
              THEN RMul(s2, Dec(90)) ELSE s2
        s4 == IF memories.potentialDuplicate # Null THEN RMul(s3, Dec(50)) ELSE s3
        s5 == IF memories.vendorMemory = Null \/ memories.vendorMemory[1].usageCount < 2
              THEN RMul(s4, Dec(80)) ELSE s4
    IN  RMax(Dec(10), RMin(Rat(1, 1), s5))

buildReasoning(requiresHumanReview, escalationReasons, corrections, memories, confidence) ==
    [verdict    |-> IF requiresHumanReview THEN "REQUIRES HUMAN REVIEW" ELSE "AUTO-PROCESSED",
     confidence |-> confidence,
     memory     |-> IF memories.vendorMemory # Null
                    THEN <<memories.vendorMemory[1].usageCount,
                           memories.vendorMemory[1].vendorName>>
                    ELSE <<>>,
     autoApplied |-> Filter(corrections, {c \in Range(corrections) : c.autoApplied}),
     proposed    |-> Filter(corrections, {c \in Range(corrections) : ~c.autoApplied}),
     escalationReasons |-> escalationReasons,
     duplicateWarning  |-> memories.potentialDuplicate # Null]

isPendingBelowAutoCorrect(c) ==
    /\ ~c.autoApplied
    /\ RLe(ESCALATE_THRESHOLD, c.confidence)
    /\ RLt(c.confidence, AUTO_CORRECT_THRESHOLD)

\* the filter of rule 4: c => !c.autoApplied && c.confidence >= ESCALATE_THRESHOLD
isPending(c) ==
    ~c.autoApplied /\ RLe(ESCALATE_THRESHOLD, c.confidence)

\* rule 8: neither AUTO-ACCEPT nor AUTO-CORRECT
belowAutoAccept(confidenceScore) == RLt(confidenceScore, AUTO_ACCEPT_THRESHOLD)

belowAutoCorrect(confidenceScore) == RLt(confidenceScore, AUTO_CORRECT_THRESHOLD)

\* rule 8 escalates without recording why
overallConfidenceTooLowUnrecorded(escalationReasons, confidenceScore) ==
    escalationReasons

\* rule 8, the else branch: the reason pushed when the score is too low
overallConfidenceTooLow(escalationReasons, confidenceScore) ==
    Append(escalationReasons, <<"Overall confidence too low", confidenceScore>>)

makeDecision(normalizedInvoice, proposedCorrections, memories, originalConfidence) ==
    LET r1 == IF memories.potentialDuplicate # Null
              THEN <<DuplicateReason(memories.potentialDuplicate[1])>> ELSE <<>>
        r2 == IF isNewVendor(memories) THEN <<NEW_VENDOR_REASON>> ELSE <<>>
        lowConfidenceCorrections ==
            Filter(proposedCorrections,
                   {c \in Range(proposedCorrections) : RLt(c.confidence, ESCALATE_THRESHOLD)})
        r3 == [i \in DOMAIN lowConfidenceCorrections |->
                  <<"Low confidence correction", lowConfidenceCorrections[i].field,
                    lowConfidenceCorrections[i].confidence>>]
        pendingCorrections ==
            Filter(proposedCorrections,
                   {c \in Range(proposedCorrections) : isPending(c)})
        r4 == [i \in DOMAIN pendingCorrections |->
                  <<"Pending correction needs review", pendingCorrections[i].field,
                    pendingCorrections[i].confidence>>]
        r5 == IF hasConflictingMemories(memories) THEN <<CONFLICT_REASON>> ELSE <<>>
        missingFields == checkMissingFields(normalizedInvoice, proposedCorrections)
        r6 == [i \in DOMAIN missingFields |-> <<"Missing critical field", missingFields[i]>>]
        reasons == r1 \o r2 \o r3 \o r4 \o r5 \o r6
        confidenceScore ==
            calculateOverallConfidence_decide(originalConfidence, memories,
                                              proposedCorrections)
        \* requiresHumanReview as set by rules 1-6
        flagged == \/ memories.potentialDuplicate # Null
                   \/ isNewVendor(memories)
                   \/ Len(lowConfidenceCorrections) > 0
                   \/ Len(pendingCorrections) > 0
                   \/ hasConflictingMemories(memories)
                   \/ Len(missingFields) > 0
        tooLow == ~flagged /\ belowAutoCorrect(confidenceScore)
        escalationReasons ==
            IF tooLow THEN overallConfidenceTooLow(reasons, confidenceScore)
            ELSE reasons
        requiresHumanReview == flagged \/ tooLow
    IN  [requiresHumanReview |-> requiresHumanReview,
         reasoning           |-> buildReasoning(requiresHumanReview, escalationReasons,
                                                proposedCorrections, memories,
                                                confidenceScore),
         confidenceScore     |-> confidenceScore,
         escalationReasons   |-> escalationReasons]

(***************************************************************************)
(* Learn (src/unnamed/part_001, services/learn.ts)                         *)
(*                                                                         *)
(* A field name is the tuple of its parts: <<"currency">>, and             *)
(* <<"lineItems", i, "sku">> for `lineItems[i].sku`.  A human correction's *)
(* from / to values are opaque strings.                                    *)
(***************************************************************************)
isSkuField(field) == Len(field) = 3 /\ field[1] = "lineItems" /\ field[3] = "sku"

mentions(reason, word) == includes(toLowerCase(reason), <<word>>)

\* the log of a Learn call's correction-memory steps: which row, which call
\* (create / reinforce / weaken), the stored confidence before and after
logStep(steps, before, after, kind) ==
    LET changed == {i \in DOMAIN after : i \notin DOMAIN before \/ before[i] # after[i]}
        i == Min(changed)
    IN  IF changed = {} THEN steps
        ELSE Append(steps, [kind   |-> kind,
                            id     |-> i,
                            before |-> IF i \in DOMAIN before THEN before[i].confidence
                                       ELSE after[i].confidence,
                            after  |-> after[i].confidence])

\* st after `await recordCorrection(...)`
withRecordCorrection(st, vendorName, fieldName, pattern, correctionType, correctionValue) ==
    LET cm2 == recordCorrection(st.cm, vendorName, fieldName, pattern,
                                correctionType, correctionValue)
    IN  [st EXCEPT !.cm = cm2,
                   !.steps = logStep(st.steps, st.cm, cm2,
                                     IF Len(cm2) > Len(st.cm) THEN "create"
                                     ELSE "reinforce")]

processCorrection(st, invoice, vendorName, correction, decision) ==
    LET isApproved == decision = "approved"
        field  == correction.field
        to     == correction.to
        reason == correction.reason
        act    == IF isApproved THEN "reinforce" ELSE "weaken"
        \* 1. serviceDate extraction from label
        learnServiceDate(s) ==
              IF field = <<"serviceDate">> /\ mentions(reason, "leistungsdatum")
              THEN [withRecordCorrection(
                        [s EXCEPT !.vm = updateFieldMapping(s.vm, vendorName,
                                              "Leistungsdatum", "serviceDate", isApproved)],
                        vendorName, <<"serviceDate">>, <<"Leistungsdatum">>,
                        "extract_from_rawtext", <<to>>)
                    EXCEPT
                      !.updates = s.updates \o <<<<"vendor", act>>, <<"correction", "create">>>>,
                      !.details = Append(s.details, <<"Learned field mapping", field>>)]
              ELSE s
        \* 2. tax / VAT recalculation
        learnTax(s) ==
              IF /\ field \in {<<"taxTotal">>, <<"grossTotal">>}
                 /\ \/ mentions(reason, "vat") \/ mentions(reason, "mwst")
                    \/ mentions(reason, "recalculated")
              THEN [withRecordCorrection(
                        [s EXCEPT !.vm = updateTaxBehavior(s.vm, vendorName, TRUE,
                                              invoice.fields.taxRate, isApproved)],
                        vendorName, field, <<"vat_inclusive">>, "recalculate_tax",
                        <<correction.from, to>>)
                    EXCEPT
                      !.updates = s.updates \o <<<<"vendor", act>>, <<"correction", "create">>>>,
                      !.details = Append(s.details, <<"Learned VAT-inclusive pricing", field>>)]
              ELSE s
        \* 3. currency
        learnCurrency(s) ==
              IF field = <<"currency">>
              THEN [withRecordCorrection(
                        [s EXCEPT !.vm = updateDefaultCurrency(s.vm, vendorName, to)],
                        vendorName, <<"currency">>, <<"missing_currency">>,
                        "set_currency", <<to>>)
                    EXCEPT
                      !.updates = Append(s.updates, <<"vendor", "reinforce">>),
                      !.details = Append(s.details, <<"Learned default currency", field>>)]
              ELSE s
        \* 4. PO matching
        learnPO(s) ==
              IF field = <<"poNumber">>
              THEN [withRecordCorrection(s, vendorName, <<"poNumber">>, reason,
                                         "match_po", <<to>>)
                    EXCEPT
                      !.updates = Append(s.updates, <<"correction", "create">>),
                      !.details = Append(s.details, <<"Learned PO matching", field>>)]
              ELSE s
        \* 5. SKU mapping from the line item's description
        learnSku(s) ==
              IF /\ isSkuField(field)
                 /\ field[2] + 1 \in DOMAIN invoice.fields.lineItems
                 /\ invoice.fields.lineItems[field[2] + 1].description # <<>>
              THEN [s EXCEPT
                      !.vm = updateSkuMapping(s.vm, vendorName,
                                 invoice.fields.lineItems[field[2] + 1].description,
                                 to, isApproved),
                      !.updates = Append(s.updates, <<"vendor", act>>),
                      !.details = Append(s.details, <<"Learned SKU mapping", field>>)]
              ELSE s
        \* 6. payment / discount terms
        learnTerms(s) ==
              IF field = <<"discountTerms">>
              THEN [withRecordCorrection(
                        [s EXCEPT !.vm = updatePaymentTerms(s.vm, vendorName, to)],
                        vendorName, <<"discountTerms">>, <<"skonto">>,
                        "set_payment_terms", <<to>>)
                    EXCEPT
                      !.updates = Append(s.updates, <<"vendor", "reinforce">>),
                      !.details = Append(s.details, <<"Learned payment terms", field>>)]
              ELSE s
        \* reinforce or weaken the existing correction memory for the field
        adjustExisting(s) ==
            LET existingCorrection == findMatchingCorrection(s.cm, vendorName, field, <<>>)
                cm7 == IF isApproved THEN reinforceCorrection(s.cm, existingCorrection[1])
                                     ELSE weakenCorrection(s.cm, existingCorrection[1])
            IN  IF existingCorrection = Null THEN s
                ELSE [s EXCEPT
                        !.cm = cm7,
                        !.steps = logStep(s.steps, s.cm, cm7, act),
                        !.updates = Append(s.updates, <<"correction", act>>)]
    IN  adjustExisting(learnTerms(learnSku(learnPO(learnCurrency(learnTax(
            learnServiceDate(st)))))))

RECURSIVE processCorrections(_, _, _, _, _)
processCorrections(st, invoice, vendorName, corrections, decision) ==
    IF corrections = <<>> THEN st
    ELSE processCorrections(
             processCorrection(st, invoice, vendorName, Head(corrections), decision),
             invoice, vendorName, Tail(corrections), decision)

RECURSIVE recordResolutions(_, _, _, _, _)
recordResolutions(rm, invoice, vendorName, corrections, decision) ==
    IF corrections = <<>> THEN rm
    ELSE recordResolutions(
             recordResolution(rm, invoice.invoiceId, vendorName, Head(corrections).field,
                              Head(corrections).from, Head(corrections).to, decision,
                              Head(corrections).reason),
             invoice, vendorName, Tail(corrections), decision)

learn(vm, cm, rm, pi, invoice, humanCorrection) ==
    LET vendorName == invoice.vendor
        created == getVendorMemory(vm, vendorName) = Null
        st0 == [vm |-> ensureVendorMemory(vm, vendorName),
                cm |-> cm,
                steps |-> <<>>,
                updates |-> IF created THEN <<<<"vendor", "create">>>> ELSE <<>>,
                details |-> IF created THEN <<<<"Created vendor memory">>>> ELSE <<>>]
        \* record the resolutions and the processed invoice, build the result
        finish(st1) ==
            [vm |-> st1.vm,
             cm |-> st1.cm,
             rm |-> recordResolutions(rm, invoice, vendorName,
                                      humanCorrection.corrections,
                                      humanCorrection.finalDecision),
             pi |-> recordProcessedInvoice(pi, invoice),
             memoryUpdates |-> st1.updates,
             steps |-> st1.steps,
             details |-> Append(st1.details, <<"Recorded invoice as processed">>)]
    IN  finish(processCorrections(st0, invoice, vendorName,
                                  humanCorrection.corrections,
                                  humanCorrection.finalDecision))

(***************************************************************************)
(* Learn as the event loop runs it.  Every `await` hands control back to   *)
(* the event loop, so a Learn call is a sequence of segments, each run to  *)
(* completion: the statements sql.js executes between two awaits.  A call  *)
(* in flight is a record: its arguments, the segment it runs next (pc) and *)
(* the locals that live across awaits (memory: the vendor row it read,     *)
(* existing: the correction memory it found).  before is the store at the  *)
(* time the calls were started.  The batch is one serviceDate correction   *)
(* with the Leistungsdatum reason (rule 1 of processCorrection).           *)
(***************************************************************************)
Call(invoice, decision, before) ==
    [invoice |-> invoice, decision |-> decision, pc |-> "learn.getVendorMemory",
     memory |-> Null, existing |-> Null, before |-> before]

At(c, pc) == c \in DOMAIN calls /\ calls[c].pc = pc

\* learn: let vendorMemory = await getVendorMemory(vendorName)
LearnGetVendorMemory(c) ==
    /\ At(c, "learn.getVendorMemory")
    /\ calls' = [calls EXCEPT
                   ![c].memory = getVendorMemory(vendor_memories, calls[c].invoice.vendor),
                   ![c].pc = IF getVendorMemory(vendor_memories, calls[c].invoice.vendor) = Null
                             THEN "learn.createVendorMemory"
                             ELSE "updateFieldMapping.getVendorMemory"]
    /\ UNCHANGED <<vendor_memories, correction_memories, resolution_memories,
                   processed_invoices, last, connection>>

\* learn: if (!vendorMemory) await createVendorMemory(vendorName): the INSERT
\* throws when the row exists by now (vendor_name is UNIQUE), and learn has
\* no try / catch
LearnCreateVendorMemory(c) ==
    /\ At(c, "learn.createVendorMemory")
    /\ IF getVendorMemory(vendor_memories, calls[c].invoice.vendor) # Null
       THEN /\ calls' = [calls EXCEPT ![c].pc = "failed"]
            /\ UNCHANGED vendor_memories
       ELSE /\ calls' = [calls EXCEPT ![c].pc = "updateFieldMapping.getVendorMemory"]
            /\ vendor_memories' = createVendorMemory(vendor_memories, calls[c].invoice.vendor)
    /\ UNCHANGED <<correction_memories, resolution_memories, processed_invoices, last, connection>>

\* updateFieldMapping: let memory = await getVendorMemory(vendorName)
UpdateFieldMappingRead(c) ==
    /\ At(c, "updateFieldMapping.getVendorMemory")
    /\ calls' = [calls EXCEPT
                   ![c].memory = getVendorMemory(vendor_memories, calls[c].invoice.vendor),
                   ![c].pc = "updateFieldMapping.update"]
    /\ UNCHANGED <<vendor_memories, correction_memories, resolution_memories,
                   processed_invoices, last, connection>>

\* updateFieldMapping: the rest, computed from the row read before the await
\* (no row is ever deleted, so the row learn ensured was found)
UpdateFieldMappingWrite(c) ==
    /\ At(c, "updateFieldMapping.update")
    /\ calls[c].memory # Null
    /\ vendor_memories' =
          updateVendorRow(vendor_memories, calls[c].invoice.vendor,
                          withFieldMapping(calls[c].memory[1], "Leistungsdatum",
                                           "serviceDate", calls[c].decision = "approved"),
                          {"fieldMappings", "confidence", "usageCount"})
    /\ calls' = [calls EXCEPT ![c].pc = "recordCorrection.find"]
    /\ UNCHANGED <<correction_memories, resolution_memories, processed_invoices, last, connection>>

\* recordCorrection: const existing = await findMatchingCorrection(...)
RecordCorrectionFind(c) ==
    /\ At(c, "recordCorrection.find")
    /\ calls' = [calls EXCEPT
                   ![c].existing = findMatchingCorrection(correction_memories,
                                       calls[c].invoice.vendor, <<"serviceDate">>,
                                       <<"Leistungsdatum">>),
                   ![c].pc = "recordCorrection.write"]
    /\ UNCHANGED <<vendor_memories, correction_memories, resolution_memories,
                   processed_invoices, last, connection>>

\* recordCorrection: reinforce the row found (reinforceCorrection reads and
\* writes it in one segment) or INSERT a new one
RecordCorrectionWrite(c) ==
    /\ At(c, "recordCorrection.write")
    /\ correction_memories' =
          IF calls[c].existing # Null
          THEN reinforceCorrection(correction_memories, calls[c].existing[1])
          ELSE Append(correction_memories,
                      newCorrection(calls[c].invoice.vendor, <<"serviceDate">>,
                                    <<"Leistungsdatum">>, "extract_from_rawtext",
                                    <<"2024-01-15">>))
    /\ calls' = [calls EXCEPT ![c].pc = "processCorrection.find"]
    /\ UNCHANGED <<vendor_memories, resolution_memories, processed_invoices, last, connection>>

\* processCorrection: const existingCorrection = await findMatchingCorrection(vendorName, field)
AdjustFind(c) ==
    /\ At(c, "processCorrection.find")
    /\ calls' = [calls EXCEPT
                   ![c].existing = findMatchingCorrection(correction_memories,
                                       calls[c].invoice.vendor, <<"serviceDate">>, <<>>),
                   ![c].pc = "processCorrection.adjust"]
    /\ UNCHANGED <<vendor_memories, correction_memories, resolution_memories,
                   processed_invoices, last, connection>>

\* processCorrection: reinforceCorrection / weakenCorrection of the row found
AdjustWrite(c) ==
    /\ At(c, "processCorrection.adjust")
    /\ correction_memories' =
          IF calls[c].existing = Null THEN correction_memories
          ELSE IF calls[c].decision = "approved"
               THEN reinforceCorrection(correction_memories, calls[c].existing[1])
               ELSE weakenCorrection(correction_memories, calls[c].existing[1])
    /\ calls' = [calls EXCEPT ![c].pc = "learn.recordResolution"]
    /\ UNCHANGED <<vendor_memories, resolution_memories, processed_invoices, last, connection>>

\* learn: await recordResolution(...) for the correction of the batch
LearnRecordResolution(c) ==
    /\ At(c, "learn.recordResolution")
    /\ resolution_memories' =
          recordResolution(resolution_memories, calls[c].invoice.invoiceId,
                           calls[c].invoice.vendor, <<"serviceDate">>, "", "2024-01-15",
                           calls[c].decision,
                           <<"extracted", "via", "Leistungsdatum", "label">>)
    /\ calls' = [calls EXCEPT ![c].pc = "learn.recordProcessedInvoice"]
    /\ UNCHANGED <<vendor_memories, correction_memories, processed_invoices, last, connection>>

\* learn: await recordProcessedInvoice(invoice); return
LearnRecordProcessedInvoice(c) ==
    /\ At(c, "learn.recordProcessedInvoice")
    /\ processed_invoices' = recordProcessedInvoice(processed_invoices, calls[c].invoice)
    /\ calls' = [calls EXCEPT ![c].pc = "done"]
    /\ UNCHANGED <<vendor_memories, correction_memories, resolution_memories, last, connection>>

(***************************************************************************)
(* The library's entry points (src/src/index.ts)                           *)
(***************************************************************************)
processInvoice(vm, cm, rm, pi, invoice, purchaseOrders) ==
    LET \* Build result
        result(memories, applyResult, decisionResult) ==
            [normalizedInvoice   |-> applyResult.normalizedInvoice,
             proposedCorrections |-> applyResult.proposedCorrections,
             requiresHumanReview |-> decisionResult.requiresHumanReview,
             reasoning           |-> decisionResult.reasoning,
             confidenceScore     |-> decisionResult.confidenceScore,
             escalationReasons   |-> decisionResult.escalationReasons,
             memories            |-> memories]
        \* Step 3: DECIDE
        decide(memories, applyResult) ==
            result(memories, applyResult,
                   makeDecision(applyResult.normalizedInvoice,
                                applyResult.proposedCorrections,
                                memories, invoice.confidence))
        \* Step 2: APPLY
        apply(memories) ==
            decide(memories, applyMemories(invoice, memories, purchaseOrders))
        \* Step 1: RECALL
    IN  apply(recallMemories(vm, cm, rm, pi, invoice))

\* last = the latest call: its arguments and what it returned.  rerun tells
\* that the call before it was processInvoice with the same arguments.
ProcessedAs(invoice, purchaseOrders, result) ==
    [op |-> "processInvoice", invoice |-> invoice, purchaseOrders |-> purchaseOrders,
     result |-> result,
     rerun |-> /\ last.op = "processInvoice"
               /\ last.invoice = invoice
               /\ last.purchaseOrders = purchaseOrders]

ProcessInvoiceRecordsUsage(invoice, purchaseOrders) ==
    /\ last' = ProcessedAs(invoice, purchaseOrders,
                   processInvoice(vendor_memories, correction_memories,
                                  resolution_memories, processed_invoices,
                                  invoice, purchaseOrders))
    /\ vendor_memories' = recordVendorUsage(vendor_memories, invoice.vendor)
    /\ UNCHANGED <<correction_memories, resolution_memories, processed_invoices, calls, connection>>

ProcessInvoice(invoice, purchaseOrders) ==
    /\ last' = ProcessedAs(invoice, purchaseOrders,
                   processInvoice(vendor_memories, correction_memories,
                                  resolution_memories, processed_invoices,
                                  invoice, purchaseOrders))
    /\ UNCHANGED <<vendor_memories, correction_memories, resolution_memories,
                   processed_invoices, calls, connection>>

ApplyHumanCorrection(invoice, correction) ==
    LET saved(r) ==
            /\ vendor_memories' = r.vm
            /\ correction_memories' = r.cm
            /\ resolution_memories' = r.rm
            /\ processed_invoices' = r.pi
            /\ last' = [op |-> "applyHumanCorrection", invoice |-> invoice,
                        correction |-> correction, memoryUpdates |-> r.memoryUpdates,
                        details |-> r.details, correctionSteps |-> r.steps]
            /\ UNCHANGED <<calls, connection>>
    IN  saved(learn(vendor_memories, correction_memories, resolution_memories,
                    processed_invoices, invoice, correction))

\* resetDatabase unlinks the database file and drops the connection: the
\* next call opens a new, empty database
ResetAllMemories ==
    /\ vendor_memories' = <<>>
    /\ correction_memories' = <<>>
    /\ resolution_memories' = <<>>
    /\ processed_invoices' = <<>>
    /\ last' = [op |-> "resetAllMemories"]
    /\ UNCHANGED <<calls, connection>>

Init ==
    /\ vendor_memories = <<>>
    /\ correction_memories = <<>>
    /\ resolution_memories = <<>>
    /\ processed_invoices = <<>>
    /\ last = [op |-> "none"]
    /\ calls = <<>>
    /\ db = 0
    /\ databases = <<>>
    /\ file = <<>>

(***************************************************************************)
(* Inputs                                                                  *)
(***************************************************************************)
MaxLearns     == 2
ConfMaxLearns == 4
MaxWarmUps    == 1
BatchMaxLearns == 2
MaxDays       == 2
TermsMaxLearns == 3
MaxDatabases  == 3

SUPPLIER == "Supplier GmbH"
PARTS    == "Parts AG"

Date(fmt, day) == [fmt |-> fmt, day |-> day]

\* an invoice of SUPPLIER, complete but for the service date, whose free text
\* carries the Leistungsdatum label
SupplierInvoice(invoiceNumber, invoiceDate, grossTotal) ==
    [invoiceId  |-> "INV-A",
     vendor     |-> SUPPLIER,
     fields     |-> [invoiceNumber |-> invoiceNumber,
                     invoiceDate   |-> invoiceDate,
                     serviceDate   |-> Null,
                     currency      |-> "EUR",
                     poNumber      |-> "",
                     netTotal      |-> 840,
                     taxRate       |-> 19,
                     taxTotal      |-> grossTotal - 840,
                     grossTotal    |-> grossTotal,
                     lineItems     |-> <<[sku |-> "WIDGET-1", description |-> <<"Widget">>,
                                          qty |-> 1, unitPrice |-> 840]>>,
                     discountTerms |-> ""],
     confidence |-> Dec(90),
     rawText    |-> <<Word("Leistungsdatum"), DateDMY(15, 1, 2024)>>]

\* an invoice of PARTS with no currency, no SKU and no discount terms, whose
\* free text states VAT-inclusive prices, a total, a currency and Skonto terms
PartsInvoice(invoiceNumber) ==
    [invoiceId  |-> "INV-B",
     vendor     |-> PARTS,
     fields     |-> [invoiceNumber |-> invoiceNumber,
                     invoiceDate   |-> Date("YYYY-MM-DD", 40),
                     serviceDate   |-> <<2024, 2, 1>>,
                     currency      |-> "",
                     poNumber      |-> "PO-B-1",
                     netTotal      |-> 1000,
                     taxRate       |-> 19,
                     taxTotal      |-> 0,
                     grossTotal    |-> 1000,
                     lineItems     |-> <<[sku |-> "", description |-> <<"Seefracht", "Shipping">>,
                                          qty |-> 1, unitPrice |-> 1000]>>,
                     discountTerms |-> ""],
     confidence |-> Dec(85),
     rawText    |-> <<Word("MwSt"), Word("Inkl."), Word("Total"), Amount(1190),
                      Word("Currency"), Word("EUR"), TermsPhrase("2% Skonto within 10 days")>>]

InvoiceDates == {Date("DD.MM.YYYY", 10), Date("YYYY-MM-DD", 17),
                 Date("DD-MM-YYYY", 18), Date("10 Jan 2024", 10)}
GrossTotals  == {1000, 1010, 1011}

Invoices ==
    {SupplierInvoice(1, dt, g) : dt \in InvoiceDates, g \in GrossTotals}
    \cup {PartsInvoice(9)}

LearnInvoices ==
    {SupplierInvoice(1, Date("DD.MM.YYYY", 10), 1000),
     SupplierInvoice(1, Date("DD-MM-YYYY", 18), 1011)}

PurchaseOrderSets ==
    {<<>>,
     <<[poNumber |-> "PO-A-1", vendor |-> SUPPLIER,
        lineItems |-> <<[sku |-> "WIDGET-1"]>>]>>}

FieldCorrection(field, from, to, reason) ==
    [field |-> field, from |-> from, to |-> to, reason |-> reason]

cServiceDate == FieldCorrection(<<"serviceDate">>, "", "2024-01-15",
                                <<"extracted", "via", "Leistungsdatum", "label">>)
cTaxTotal    == FieldCorrection(<<"taxTotal">>, "190", "160",
                                <<"VAT", "included", "in", "prices">>)
cGrossTotal  == FieldCorrection(<<"grossTotal">>, "1000", "1190",
                                <<"Recalculated", "from", "total">>)
cCurrency    == FieldCorrection(<<"currency">>, "", "EUR",
                                <<"currency", "found", "in", "text">>)
cSku         == FieldCorrection(<<"lineItems", 0, "sku">>, "", "FREIGHT",
                                <<"Seefracht", "maps", "to", "FREIGHT">>)

\* malformed corrections: a line item the invoice does not have, and a field
\* name that is no invoice field
cSkuOutOfRange == FieldCorrection(<<"lineItems", 5, "sku">>, "", "FREIGHT",
                                  <<"Seefracht", "maps", "to", "FREIGHT">>)
cUnknownField  == FieldCorrection(<<"vendorVatId">>, "", "DE123", <<"entered", "by", "hand">>)

HumanCorrection(invoice, corrections, finalDecision) ==
    [invoiceId |-> invoice.invoiceId, vendor |-> invoice.vendor,
     corrections |-> corrections, finalDecision |-> finalDecision]

Decisions == {"approved", "rejected"}

Batches     == {<<>>, <<cServiceDate>>, <<cCurrency, cSku>>}
ConfBatches == {<<cServiceDate>>, <<cTaxTotal, cGrossTotal>>, <<cSku>>, <<cCurrency>>}

MalformedBatches == {<<cSkuOutOfRange, cCurrency>>, <<cCurrency, cUnknownField>>,
                     <<cUnknownField, cSku>>, <<cSkuOutOfRange>>}

\* the k-th invoice of PARTS: every one has its own invoice number
ConfInvoice(k) == PartsInvoice(100 + k)

(***************************************************************************)
(* Specifications                                                          *)
(***************************************************************************)
Process ==
    \E invoice \in Invoices, purchaseOrders \in PurchaseOrderSets :
        ProcessInvoice(invoice, purchaseOrders)

Learn ==
    /\ Len(processed_invoices) < MaxLearns
    /\ \E invoice \in LearnInvoices, corrections \in Batches, decision \in Decisions :
          ApplyHumanCorrection(invoice, HumanCorrection(invoice, corrections, decision))

Next == Process \/ Learn \/ ResetAllMemories

Spec == Init /\ [][Next]_vars

\* the confidence arithmetic: one vendor, a fresh invoice per Learn call
ConfProcess ==
    ProcessInvoice(ConfInvoice(Len(processed_invoices) + 1), <<>>)

ConfLearn ==
    /\ Len(processed_invoices) < ConfMaxLearns
    /\ \E corrections \in ConfBatches, decision \in Decisions :
          LET invoice == ConfInvoice(Len(processed_invoices) + 1)
          IN  ApplyHumanCorrection(invoice, HumanCorrection(invoice, corrections, decision))

NextConf == ConfProcess \/ ConfLearn

SpecConf == Init /\ [][NextConf]_vars

\* batches that contain a malformed correction
BatchLearn ==
    /\ Len(processed_invoices) < BatchMaxLearns
    /\ \E corrections \in MalformedBatches, decision \in Decisions :
          LET invoice == ConfInvoice(Len(processed_invoices) + 1)
          IN  ApplyHumanCorrection(invoice, HumanCorrection(invoice, corrections, decision))

NextBatch == ConfProcess \/ BatchLearn \/ ResetAllMemories

SpecBatch == Init /\ [][NextBatch]_vars

\* the decay function on its own: a stored confidence lies between the floor
\* 0.1 of the update rules and 1, in hundredths
StoredConfidences == {Dec(h) : h \in 10 .. 100}

ApplyConfidenceDecay ==
    /\ \E confidence \in StoredConfidences, daysSinceLastUse \in 0 .. MaxDays :
          last' = [op |-> "applyConfidenceDecay", confidence |-> confidence,
                   daysSinceLastUse |-> daysSinceLastUse,
                   result |-> applyConfidenceDecay(confidence, daysSinceLastUse)]
    /\ UNCHANGED <<vendor_memories, correction_memories, resolution_memories,
                   processed_invoices, calls, connection>>

NextDecay == ApplyConfidenceDecay

SpecDecay == Init /\ [][NextDecay]_vars

\* payment terms: invoices of PARTS with or without discount terms of their
\* own and with or without Skonto terms in the free text, and batches that
\* correct the discount terms, the currency or the purchase order
TermsInvoice(k, own, inText) ==
    [PartsInvoice(300 + k) EXCEPT
        !.fields.discountTerms = own,
        !.rawText = IF inText THEN @ ELSE <<Word("Rechnung"), Word("EUR")>>]

cTerms(to) == FieldCorrection(<<"discountTerms">>, "", to, <<"Skonto", "terms">>)

cPO == FieldCorrection(<<"poNumber">>, "PO-B-1", "PO-B-2", <<"matched", "by", "hand">>)

TermsBatches == {<<cTerms("3% Skonto within 14 days")>>, <<cTerms("net 60")>>,
                 <<cTerms("net 60"), cTerms("2% Skonto within 10 days")>>,
                 <<cCurrency>>, <<cPO>>}

TermsProcess ==
    \E own \in {"", "net 30"}, inText \in BOOLEAN :
        ProcessInvoice(TermsInvoice(Len(processed_invoices) + 1, own, inText), <<>>)

TermsLearn ==
    /\ Len(processed_invoices) < TermsMaxLearns
    /\ \E corrections \in TermsBatches, decision \in Decisions :
          LET invoice == TermsInvoice(Len(processed_invoices) + 1, "", TRUE)
          IN  ApplyHumanCorrection(invoice, HumanCorrection(invoice, corrections, decision))

NextTerms == TermsProcess \/ TermsLearn

SpecTerms == Init /\ [][NextTerms]_vars

\* two applyHumanCorrection calls for one vendor started without awaiting
\* the first, after at most MaxWarmUps calls that ran alone
RaceInvoice(k) == SupplierInvoice(k, Date("DD.MM.YYYY", 10), 1000)

RaceCorrection(invoice, decision) == HumanCorrection(invoice, <<cServiceDate>>, decision)

RaceWarmUp ==
    /\ calls = <<>>
    /\ Len(processed_invoices) < MaxWarmUps
    /\ \E decision \in Decisions :
          ApplyHumanCorrection(RaceInvoice(10 + Len(processed_invoices)),
                               RaceCorrection(RaceInvoice(10 + Len(processed_invoices)), decision))

StartConcurrentLearns ==
    /\ calls = <<>>
    /\ \E d1 \in Decisions, d2 \in Decisions :
          calls' = <<Call(RaceInvoice(21), d1, store), Call(RaceInvoice(22), d2, store)>>
    /\ UNCHANGED <<vendor_memories, correction_memories, resolution_memories,
                   processed_invoices, last, connection>>

NextRace ==
    \/ RaceWarmUp
    \/ StartConcurrentLearns
    \/ \E c \in DOMAIN calls : LearnGetVendorMemory(c)
    \/ \E c \in DOMAIN calls : LearnCreateVendorMemory(c)
    \/ \E c \in DOMAIN calls : UpdateFieldMappingRead(c)
    \/ \E c \in DOMAIN calls : UpdateFieldMappingWrite(c)
    \/ \E c \in DOMAIN calls : RecordCorrectionFind(c)
    \/ \E c \in DOMAIN calls : RecordCorrectionWrite(c)
    \/ \E c \in DOMAIN calls : AdjustFind(c)
    \/ \E c \in DOMAIN calls : AdjustWrite(c)
    \/ \E c \in DOMAIN calls : LearnRecordResolution(c)
    \/ \E c \in DOMAIN calls : LearnRecordProcessedInvoice(c)

SpecRace == Init /\ [][NextRace]_vars

(***************************************************************************)
(* The store connection (src/src/db/connection.ts) as the event loop runs  *)
(* it.  A call in flight is a record: the operation, its vendor, the       *)
(* function it is in and the stage of that function (pc), the Database     *)
(* object its function got from getDatabase (handle), what it has read     *)
(* (result), and whether it was started as the first use after a reset.    *)
(* Every store function starts with `const db = await getDatabase()`: the  *)
(* await hands control back to the event loop before the function goes on  *)
(* with the object it was given.  An applyHumanCorrection call is followed *)
(* as far as learn's vendor-memory lines: getVendorMemory, and             *)
(* createVendorMemory when there is none.                                  *)
(***************************************************************************)
\* new SQL.Database() followed by initializeSchema
EmptyDatabase == [vm |-> <<>>, cm |-> <<>>, rm |-> <<>>, pi |-> <<>>]

\* a database file left by an earlier run: one approved Learn call
EarlierDatabase ==
    LET tables(r) == [vm |-> r.vm, cm |-> r.cm, rm |-> r.rm, pi |-> r.pi]
    IN  tables(learn(<<>>, <<>>, <<>>, <<>>, ConfInvoice(1),
                     HumanCorrection(ConfInvoice(1), <<cServiceDate>>, "approved")))

\* a reset that unlinks the file but keeps the open connection
resetDatabaseKeepsConnection(d, f) == [db |-> d, file |-> Null]

resetDatabase(d, f) == [db |-> 0, file |-> Null]

\* the functions of getAllMemories, in call order
NextFunction(fn) ==
    CASE fn = "getAllMemories"           -> "getAllVendorMemories"
      [] fn = "getAllVendorMemories"     -> "getAllCorrectionMemories"
      [] fn = "getAllCorrectionMemories" -> "getAllResolutionMemories"
      [] OTHER                           -> "done"

OpenCall(op, vendorName, afterReset) ==
    [op |-> op, vendorName |-> vendorName,
     pc |-> <<IF op = "applyHumanCorrection" THEN "getVendorMemory" ELSE "getAllMemories",
              "getDatabase">>,
     handle |-> 0, result |-> <<>>, afterReset |-> afterReset]

OpenCalls(afterReset) ==
    {OpenCall("applyHumanCorrection", v, afterReset) : v \in {SUPPLIER, PARTS}}
    \cup {OpenCall("getAllMemories", "", afterReset)}

Finished(c) == calls[c].pc = <<"done">>

\* one or two operations are started, the second without awaiting the first
StartCalls ==
    /\ \A c \in DOMAIN calls : Finished(c)
    /\ Len(databases) + 2 <= MaxDatabases
    /\ \E first \in OpenCalls(last.op = "resetAllMemories") :
          \/ calls' = <<first>>
          \/ \E second \in OpenCalls(last.op = "resetAllMemories") :
                calls' = <<first, second>>
    /\ UNCHANGED <<vendor_memories, correction_memories, resolution_memories,
                   processed_invoices, last, connection>>

\* getDatabase: `if (db) return db;`, else `await initSqlJs()`
GetDatabase(c) ==
    /\ c \in DOMAIN calls /\ Len(calls[c].pc) = 2 /\ calls[c].pc[2] = "getDatabase"
    /\ calls' = [calls EXCEPT
                   ![c].handle = db,
                   ![c].pc = <<calls[c].pc[1], IF db # 0 THEN "exec" ELSE "initSqlJs">>]
    /\ UNCHANGED <<vendor_memories, correction_memories, resolution_memories,
                   processed_invoices, last, connection>>

\* getDatabase after `await initSqlJs()`: load the file or create a new
\* database, assign it to db and return it
OpenDatabase(c) ==
    /\ c \in DOMAIN calls /\ Len(calls[c].pc) = 2 /\ calls[c].pc[2] = "initSqlJs"
    /\ databases' = Append(databases, IF file # Null THEN file[1] ELSE EmptyDatabase)
    /\ db' = Len(databases) + 1
    /\ calls' = [calls EXCEPT ![c].handle = Len(databases) + 1,
                              ![c].pc = <<calls[c].pc[1], "exec">>]
    /\ UNCHANGED <<vendor_memories, correction_memories, resolution_memories,
                   processed_invoices, last, file>>

\* getVendorMemory: the SELECT on the object it was given; learn goes on
\* with createVendorMemory when there is no row
GetVendorMemoryExec(c) ==
    /\ At(c, <<"getVendorMemory", "exec">>)
    /\ calls' = [calls EXCEPT
                   ![c].result = getVendorMemory(databases[calls[c].handle].vm,
                                                 calls[c].vendorName),
                   ![c].pc = IF getVendorMemory(databases[calls[c].handle].vm,
                                                calls[c].vendorName) = Null
                             THEN <<"createVendorMemory", "getDatabase">>
                             ELSE <<"done">>]
    /\ last' = [op |-> "getVendorMemory"]
    /\ UNCHANGED <<vendor_memories, correction_memories, resolution_memories,
                   processed_invoices, connection>>

\* saveDatabase: `if (db)` export db (the module variable) to the file
saveDatabase(d, dbs, f) == IF d # 0 THEN Some(dbs[d]) ELSE f

\* createVendorMemory: the INSERT on the object it was given, saveDatabase
CreateVendorMemoryRun(c) ==
    /\ At(c, <<"createVendorMemory", "exec">>)
    /\ databases' = [databases EXCEPT ![calls[c].handle].vm =
                                          createVendorMemory(@, calls[c].vendorName)]
    /\ file' = saveDatabase(db, databases', file)
    /\ calls' = [calls EXCEPT ![c].pc = <<"done">>]
    /\ last' = [op |-> "createVendorMemory"]
    /\ UNCHANGED <<vendor_memories, correction_memories, resolution_memories,
                   processed_invoices, db>>

\* getAllMemories: `await getDatabase()`, then the three SELECTs, each in a
\* function that asks getDatabase again
GetAllMemoriesExec(c) ==
    /\ c \in DOMAIN calls /\ calls[c].op = "getAllMemories"
    /\ Len(calls[c].pc) = 2 /\ calls[c].pc[2] = "exec"
    /\ calls' = [calls EXCEPT
                   ![c].result = @ \o
                       CASE calls[c].pc[1] = "getAllVendorMemories"
                                -> <<databases[calls[c].handle].vm>>
                         [] calls[c].pc[1] = "getAllCorrectionMemories"
                                -> <<databases[calls[c].handle].cm>>
                         [] calls[c].pc[1] = "getAllResolutionMemories"
                                -> <<databases[calls[c].handle].rm>>
                         [] OTHER -> <<>>,
                   ![c].pc = IF NextFunction(calls[c].pc[1]) = "done" THEN <<"done">>
                             ELSE <<NextFunction(calls[c].pc[1]), "getDatabase">>]
    /\ last' = [op |-> "getAllMemories"]
    /\ UNCHANGED <<vendor_memories, correction_memories, resolution_memories,
                   processed_invoices, connection>>

\* resetAllMemories, called when no operation is in flight
ResetDatabase ==
    /\ \A c \in DOMAIN calls : Finished(c)
    /\ db # 0 \/ file # Null
    /\ db' = resetDatabase(db, file).db
    /\ file' = resetDatabase(db, file).file
    /\ calls' = <<>>
    /\ last' = [op |-> "resetAllMemories"]
    /\ UNCHANGED <<vendor_memories, correction_memories, resolution_memories,
                   processed_invoices, databases>>

\* the process starts with or without a database file of an earlier run
InitOpen ==
    /\ vendor_memories = <<>>
    /\ correction_memories = <<>>
    /\ resolution_memories = <<>>
    /\ processed_invoices = <<>>
    /\ last = [op |-> "none"]
    /\ calls = <<>>
    /\ db = 0
    /\ databases = <<>>
    /\ file \in {Null, Some(EarlierDatabase)}

NextOpen ==
    \/ StartCalls
    \/ \E c \in DOMAIN calls : GetDatabase(c)
    \/ \E c \in DOMAIN calls : OpenDatabase(c)
    \/ \E c \in DOMAIN calls : GetVendorMemoryExec(c)
    \/ \E c \in DOMAIN calls : CreateVendorMemoryRun(c)
    \/ \E c \in DOMAIN calls : GetAllMemoriesExec(c)
    \/ ResetDatabase

SpecOpen == InitOpen /\ [][NextOpen]_vars

(***************************************************************************)
(* Properties                                                              *)
(***************************************************************************)
Processed == last.op = "processInvoice"
Learned   == last.op = "applyHumanCorrection"

HasReason(reasons, reason) == \E i \in DOMAIN reasons : reasons[i] = reason

BaseConfidences == {Dec(0), Dec(50), Dec(100)}

\* C1: a document whose vendor has no vendor memory is always sent to review
\* with the new / low-history vendor reason: in every processInvoice result,
\* and in Decide run on that result's corrections and recalled memories with
\* the vendor memory removed, for every base confidence.
C1_NewVendorRequiresReview ==
    Processed =>
        /\ last.result.memories.vendorMemory = Null =>
              /\ last.result.requiresHumanReview
              /\ HasReason(last.result.escalationReasons, NEW_VENDOR_REASON)
        /\ \A originalConfidence \in BaseConfidences :
              LET d == makeDecision(last.result.normalizedInvoice,
                                    last.result.proposedCorrections,
                                    [last.result.memories EXCEPT !.vendorMemory = Null],
                                    originalConfidence)
              IN  /\ d.requiresHumanReview
                  /\ HasReason(d.escalationReasons, NEW_VENDOR_REASON)

\* a vendor without memory whose invoice got an auto-applied correction and
\* triggers no other rule: the new-vendor reason is the only one
C1_Witness ==
    /\ Processed
    /\ last.result.memories.vendorMemory = Null
    /\ \E i \in DOMAIN last.result.proposedCorrections :
          last.result.proposedCorrections[i].autoApplied
    /\ last.result.requiresHumanReview
    /\ last.result.escalationReasons = <<NEW_VENDOR_REASON>>

\* a ledger entry and an invoice with the same vendor and number, dates at
\* most 7 days apart and totals within 1% of the entry's
NearIdentical(entry, invoice) ==
    /\ entry.vendorName = invoice.vendor
    /\ entry.invoiceNumber = invoice.fields.invoiceNumber
    /\ parseDate(entry.invoiceDate) # Null
    /\ parseDate(invoice.fields.invoiceDate) # Null
    /\ Abs(parseDate(entry.invoiceDate)[1] - parseDate(invoice.fields.invoiceDate)[1]) <= 7
    /\ Abs(entry.grossTotal - invoice.fields.grossTotal) * 100 <= entry.grossTotal

IsDuplicateReason(reason) == reason[1] = "Potential duplicate detected"

\* C2: once Learn has recorded D, processing any invoice near-identical to D
\* recalls a potential duplicate and requires review, with a duplicate
\* escalation reason and the duplicate warning in the reasoning.
C2_LearnedDocumentIsRecalledAsDuplicate ==
    Processed =>
        \A i \in DOMAIN processed_invoices :
            NearIdentical(processed_invoices[i], last.invoice) =>
                /\ last.result.memories.potentialDuplicate # Null
                /\ last.result.requiresHumanReview
                /\ \E k \in DOMAIN last.result.escalationReasons :
                      IsDuplicateReason(last.result.escalationReasons[k])
                /\ last.result.reasoning.duplicateWarning

\* entry i is the only ledger entry for the invoice's vendor and number
OnlyEntryFor(i, invoice) ==
    /\ processed_invoices[i].vendorName = invoice.vendor
    /\ processed_invoices[i].invoiceNumber = invoice.fields.invoiceNumber
    /\ \A j \in DOMAIN processed_invoices :
          (/\ processed_invoices[j].vendorName = invoice.vendor
           /\ processed_invoices[j].invoiceNumber = invoice.fields.invoiceNumber) => j = i

FarAmount(entry, invoice) ==
    Abs(entry.grossTotal - invoice.fields.grossTotal) * 100 > entry.grossTotal

FarDate(entry, invoice) ==
    /\ parseDate(entry.invoiceDate) # Null
    /\ parseDate(invoice.fields.invoiceDate) # Null
    /\ Abs(parseDate(entry.invoiceDate)[1] - parseDate(invoice.fields.invoiceDate)[1]) > 7

C4_LearnBlockedForDuplicates ==
    [][(/\ last'.op = "applyHumanCorrection"
        /\ checkDuplicate(processed_invoices, last'.invoice) # Null)
       => store' = store]_vars

\* C5: processInvoice leaves the four tables of the Knowledge Store unchanged.
C5_ProcessInvoiceLeavesStoreUnchanged ==
    [][last'.op = "processInvoice" => store' = store]_vars

\* processInvoice has run on a store with rows in all four tables and has
\* proposed corrections from them
C5_Witness ==
    /\ Processed
    /\ vendor_memories # <<>> /\ correction_memories # <<>>
    /\ resolution_memories # <<>> /\ processed_invoices # <<>>
    /\ last.result.memories.vendorMemory # Null
    /\ last.result.proposedCorrections # <<>>

C7_CorrectionConfidenceBoundedMonotone ==
    /\ \A i \in DOMAIN correction_memories :
          /\ RLe(Dec(10), correction_memories[i].confidence)
          /\ RLe(correction_memories[i].confidence, Dec(95))
    /\ Learned =>
          \A k \in DOMAIN last.correctionSteps :
              LET step == last.correctionSteps[k]
              IN  /\ RLe(Dec(10), step.after) /\ RLe(step.after, Dec(95))
                  /\ step.kind = "reinforce" => RLe(step.before, step.after)
                  /\ step.kind = "weaken" => RLe(step.after, step.before)

\* a Learn call that weakened a memory it had just created at 0.6, in a store
\* holding a memory that has been reinforced and weakened several times
C7_Witness ==
    /\ Learned
    /\ \E k \in DOMAIN last.correctionSteps :
          /\ last.correctionSteps[k].kind = "weaken"
          /\ last.correctionSteps[k].before = Dec(60)
          /\ RLt(last.correctionSteps[k].after, Dec(60))
    /\ \E i \in DOMAIN correction_memories :
          /\ correction_memories[i].successCount >= 3
          /\ correction_memories[i].failureCount >= 1

\* C8: every stored vendor aggregate confidence is in [0.1, 1.0].
C8_VendorConfidenceBounded ==
    \A i \in DOMAIN vendor_memories :
        /\ RLe(Dec(10), vendor_memories[i].confidence)
        /\ RLe(vendor_memories[i].confidence, Rat(1, 1))

\* the aggregate has reached the upper bound
C8_Witness ==
    \E i \in DOMAIN vendor_memories :
        /\ vendor_memories[i].confidence = Rat(1, 1)
        /\ vendor_memories[i].usageCount >= 5

\* the step is an approved Learn call for a vendor that had a memory
ApprovedLearnStep ==
    /\ last'.op = "applyHumanCorrection"
    /\ last'.correction.finalDecision = "approved"
    /\ getVendorMemory(vendor_memories, last'.invoice.vendor) # Null

AggregateNotLowered ==
    RLe(getVendorMemory(vendor_memories, last'.invoice.vendor)[1].confidence,
        getVendorMemory(vendor_memories', last'.invoice.vendor)[1].confidence)

\* the step added no field mapping, tax behaviour or SKU mapping
NoSubMemoryCreated ==
    Len(subMemoryConfidences(getVendorMemory(vendor_memories, last'.invoice.vendor)[1]))
      = Len(subMemoryConfidences(getVendorMemory(vendor_memories', last'.invoice.vendor)[1]))

\* C9 as claimed: an approved Learn call never lowers the vendor's stored
\* aggregate confidence.
C9_ApprovedLearnNeverLowersAggregate ==
    [][ApprovedLearnStep => AggregateNotLowered]_vars

\* C9 amended: an approved Learn call that creates no new field mapping, tax
\* behaviour or SKU mapping never lowers the vendor's stored aggregate
\* confidence.
C9_ApprovedLearnWithoutNewSubMemoryNeverLowersAggregate ==
    [][(ApprovedLearnStep /\ NoSubMemoryCreated) => AggregateNotLowered]_vars

\* an approved tax batch on a vendor whose tax behaviour existed before the
\* call (a behaviour created by the call itself ends it at 0.7) next to another
\* sub-memory
C9_Witness ==
    /\ Learned
    /\ last.correction.finalDecision = "approved"
    /\ last.correction.corrections = <<cTaxTotal, cGrossTotal>>
    /\ \E i \in DOMAIN vendor_memories :
          /\ vendor_memories[i].vendorName = last.invoice.vendor
          /\ vendor_memories[i].taxBehavior # Null
          /\ RLe(Dec(80), vendor_memories[i].taxBehavior[1].confidence)
          /\ Len(subMemoryConfidences(vendor_memories[i])) >= 2

\* C10: the stored vendor aggregate confidence always equals the value
\* derived from the stored sub-memories and usageCount.
C10_AggregateIsDerived ==
    \A i \in DOMAIN vendor_memories :
        vendor_memories[i].confidence = calculateOverallConfidence_vendor(vendor_memories[i])

\* the reasons of rule 4 (pending corrections)
IsPendingReason(reason) == reason[1] = "Pending correction needs review"

\* C11: whenever the proposed corrections contain a correction that is not
\* auto-applied and has confidence >= 0.40, Decide requires review: in every
\* processInvoice result, and in Decide run on that result's corrections with
\* every base confidence, with and without the recalled duplicate.
C11_PendingCorrectionRequiresReview ==
    Processed =>
        ((\E i \in DOMAIN last.result.proposedCorrections :
              /\ ~last.result.proposedCorrections[i].autoApplied
              /\ RLe(Dec(40), last.result.proposedCorrections[i].confidence))
         => /\ last.result.requiresHumanReview
            /\ \A originalConfidence \in BaseConfidences :
                  makeDecision(last.result.normalizedInvoice,
                               last.result.proposedCorrections,
                               [last.result.memories EXCEPT !.potentialDuplicate = Null],
                               originalConfidence).requiresHumanReview)

\* a known vendor, no duplicate, overall confidence above the auto-correct
\* threshold, and the pending corrections are the only reasons for review
C11_Witness ==
    /\ Processed
    /\ last.result.memories.vendorMemory # Null
    /\ last.result.memories.vendorMemory[1].usageCount >= 2
    /\ last.result.memories.potentialDuplicate = Null
    /\ RLe(AUTO_CORRECT_THRESHOLD, last.result.confidenceScore)
    /\ last.result.requiresHumanReview
    /\ last.result.escalationReasons # <<>>
    /\ \A k \in DOMAIN last.result.escalationReasons :
          IsPendingReason(last.result.escalationReasons[k])

\* the vendor has an approved serviceDate correction citing Leistungsdatum
\* in its resolution history
ApprovedLeistungsdatum(rm, vendorName) ==
    \E i \in DOMAIN rm :
        /\ rm[i].vendorName = vendorName
        /\ rm[i].discrepancyType = <<"serviceDate">>
        /\ rm[i].resolution = "approved"
        /\ mentions(rm[i].humanFeedback, "leistungsdatum")

HasLeistungsdatumMapping(vm, vendorName) ==
    /\ getVendorMemory(vm, vendorName) # Null
    /\ \E i \in DOMAIN getVendorMemory(vm, vendorName)[1].fieldMappings :
          /\ getVendorMemory(vm, vendorName)[1].fieldMappings[i].sourceLabel = "Leistungsdatum"
          /\ getVendorMemory(vm, vendorName)[1].fieldMappings[i].targetField = "serviceDate"

HasExtractCorrection(cm, vendorName) ==
    \E i \in DOMAIN cm :
        /\ cm[i].vendorName = vendorName
        /\ cm[i].fieldName = <<"serviceDate">>
        /\ cm[i].correctionType = "extract_from_rawtext"

\* the dates that follow the label Leistungsdatum in the free text, as
\* <<year, month, day>>
LabelledDates(rawText) ==
    {IF rawText[i + 1].k = "dmy"
        THEN <<rawText[i + 1].v[3], rawText[i + 1].v[2], rawText[i + 1].v[1]>>
        ELSE rawText[i + 1].v :
     i \in {j \in 1..(Len(rawText) - 1) :
               /\ rawText[j] = Word("Leistungsdatum")
               /\ rawText[j + 1].k \in {"dmy", "ymd"}}}

\* C12: a Learn call approving a serviceDate correction whose reason mentions
\* Leistungsdatum leaves the field mapping Leistungsdatum -> serviceDate and
\* an extract_from_rawtext correction memory for (vendor, serviceDate); every
\* later processInvoice for that vendor with serviceDate absent and the label
\* followed by a date in the free text lists a serviceDate correction
\* proposing that date in ISO form.
C12_LearnedServiceDateIsProposed ==
    [][/\ (/\ last'.op = "applyHumanCorrection"
           /\ last'.correction.finalDecision = "approved"
           /\ \E k \in DOMAIN last'.correction.corrections :
                 /\ last'.correction.corrections[k].field = <<"serviceDate">>
                 /\ mentions(last'.correction.corrections[k].reason, "leistungsdatum"))
          => /\ HasLeistungsdatumMapping(vendor_memories', last'.invoice.vendor)
             /\ HasExtractCorrection(correction_memories', last'.invoice.vendor)
       /\ (/\ last'.op = "processInvoice"
           /\ ApprovedLeistungsdatum(resolution_memories, last'.invoice.vendor)
           /\ last'.invoice.fields.serviceDate = Null
           /\ LabelledDates(last'.invoice.rawText) # {})
          => \E k \in DOMAIN last'.result.proposedCorrections :
                /\ last'.result.proposedCorrections[k].field = <<"serviceDate">>
                /\ last'.result.proposedCorrections[k].proposedValue[1] = "date"
                /\ last'.result.proposedCorrections[k].proposedValue[2]
                      \in LabelledDates(last'.invoice.rawText)]_vars

\* processInvoice after such a Learn call: the date 15.01.2024 of the free
\* text is proposed as 2024-01-15
C12_Witness ==
    /\ Processed
    /\ ApprovedLeistungsdatum(resolution_memories, last.invoice.vendor)
    /\ HasLeistungsdatumMapping(vendor_memories, last.invoice.vendor)
    /\ HasExtractCorrection(correction_memories, last.invoice.vendor)
    /\ last.invoice.fields.serviceDate = Null
    /\ \E k \in DOMAIN last.result.proposedCorrections :
          /\ last.result.proposedCorrections[k].field = <<"serviceDate">>
          /\ last.result.proposedCorrections[k].proposedValue = VDate(<<2024, 1, 15>>)

\* the value of a corrected field in a normalized document, tagged as the
\* corrections tag their values
FieldValue(n, field) ==
    CASE field = <<"serviceDate">>   -> IF n.serviceDate = Null THEN VNull
                                        ELSE VDate(n.serviceDate)
      [] field = <<"grossTotal">>    -> VNum(n.grossTotal)
      [] field = <<"taxTotal">>      -> VNum(n.taxTotal)
      [] field = <<"currency">>      -> VStr(n.currency)
      [] field = <<"discountTerms">> -> IF n.discountTerms = "" THEN VNull
                                        ELSE VStr(n.discountTerms)
      [] field = <<"poNumber">>      -> IF n.poNumber = "" THEN VNull ELSE VStr(n.poNumber)
      [] isSkuField(field)           -> VStr(n.lineItems[field[2] + 1].sku)

\* C13: every proposed correction is auto-applied iff its confidence is at
\* least 0.85; the normalized document holds the proposed value of every
\* auto-applied correction and the pre-correction value of the field of
\* every pending correction.
C13_PendingCorrectionsAreNotWritten ==
    Processed =>
        \A k \in DOMAIN last.result.proposedCorrections :
            LET c == last.result.proposedCorrections[k]
            IN  /\ c.autoApplied <=> RLe(Dec(85), c.confidence)
                /\ c.autoApplied =>
                      FieldValue(last.result.normalizedInvoice, c.field) = c.proposedValue
                /\ ~c.autoApplied =>
                      FieldValue(last.result.normalizedInvoice, c.field)
                        = FieldValue(normalized(last.invoice), c.field)

\* the counters of the store: per vendor row usageCount and each field
\* mapping's success / failure counts, per correction memory its field and
\* success / failure counts
Counters(vm, cm) ==
    <<[i \in DOMAIN vm |->
          [vendorName |-> vm[i].vendorName, usageCount |-> vm[i].usageCount,
           fieldMappings |-> [j \in DOMAIN vm[i].fieldMappings |->
                <<vm[i].fieldMappings[j].successCount,
                  vm[i].fieldMappings[j].failureCount>>]]],
      [i \in DOMAIN cm |-> <<cm[i].fieldName, cm[i].successCount, cm[i].failureCount>>]>>

\* the two calls run one after the other, first then second
SerialCounters(first, second) ==
    LET counted(r) == Counters(r.vm, r.cm)
        run(r, c) == learn(r.vm, r.cm, r.rm, r.pi, c.invoice, RaceCorrection(c.invoice, c.decision))
        begin(b) == [vm |-> b[1], cm |-> b[2], rm |-> b[3], pi |-> b[4]]
    IN  counted(run(run(begin(first.before), first), second))

BothReturned == calls # <<>> /\ \A c \in DOMAIN calls : calls[c].pc \in {"done", "failed"}

\* C14: two Learn calls for the same vendor started concurrently lose no
\* update: once both have returned, neither has failed and the vendor's
\* usageCount, the field mapping counters and the correction memories'
\* success / failure counts are those of one of the two serial orders.
C14_ConcurrentLearnsLoseNoUpdate ==
    BothReturned =>
        /\ \A c \in DOMAIN calls : calls[c].pc = "done"
        /\ Counters(vendor_memories, correction_memories) \in
              {SerialCounters(calls[1], calls[2]), SerialCounters(calls[2], calls[1])}

\* the lost update alone: both calls return normally on a vendor that had a
\* memory, yet the counters match no serial order
C14_LostUpdate ==
    /\ BothReturned
    /\ \A c \in DOMAIN calls : calls[c].pc = "done"
    /\ calls[1].before[1] # <<>>
    /\ Counters(vendor_memories, correction_memories) \notin
          {SerialCounters(calls[1], calls[2]), SerialCounters(calls[2], calls[1])}

\* the serial outcome is possible too: the calls do not always interfere
C14_SerialOutcome ==
    /\ BothReturned
    /\ \A c \in DOMAIN calls : calls[c].pc = "done"
    /\ Counters(vendor_memories, correction_memories) = SerialCounters(calls[1], calls[2])

InvoiceFieldNames ==
    {"invoiceNumber", "invoiceDate", "serviceDate", "currency", "poNumber", "netTotal",
     "taxRate", "taxTotal", "grossTotal", "lineItems", "discountTerms"}

Malformed(invoice, correction) ==
    \/ correction.field[1] \notin InvoiceFieldNames
    \/ /\ isSkuField(correction.field)
       /\ correction.field[2] + 1 \notin DOMAIN invoice.fields.lineItems

\* the audit note has an entry about the field
NoteMentions(details, field) ==
    \E i \in DOMAIN details : Len(details[i]) >= 2 /\ details[i][2] = field

\* C15: a Learn call whose batch contains a malformed field correction (a
\* line-item index out of range or an unknown field name) skips it, applies
\* every other correction of the batch (each has its entry in the audit
\* note), and mentions the skipped correction in the audit note.
C15_MalformedCorrectionSkippedAndReported ==
    Learned =>
        \A i \in DOMAIN last.correction.corrections :
            NoteMentions(last.details, last.correction.corrections[i].field)

\* what the code does with such a batch: the other corrections are applied
\* and noted, the malformed one leaves no trace in the audit note
C15_MalformedCorrectionSilentlySkipped ==
    Learned =>
        \A i \in DOMAIN last.correction.corrections :
            NoteMentions(last.details, last.correction.corrections[i].field)
                <=> ~Malformed(last.invoice, last.correction.corrections[i])

Decayed == last.op = "applyConfidenceDecay"

\* a / b <= c / d for b, d > 0 and a, c >= 0, by the continued fractions of
\* the two sides (no product is formed)
RECURSIVE FracLe(_, _, _, _)
FracLe(a, b, c, d) ==
    IF a \div b # c \div d THEN a \div b < c \div d
    ELSE IF a % b = 0 THEN TRUE
    ELSE IF c % d = 0 THEN FALSE
    ELSE FracLe(d, c % d, b, a % b)

\* C16: decay(c, d) = max(0.1, c * 0.99^d) is non-increasing in the elapsed
\* days d (the value after d days is at most the value after any fewer
\* days), decay(c, 0) = c for every stored confidence c, and the value is
\* never below 0.1.
C16_DecayMonotoneWithFloor ==
    Decayed =>
        /\ FracLe(1, 10, last.result[1], last.result[2])
        /\ last.daysSinceLastUse = 0 => last.result = last.confidence
        /\ \A earlier \in 0 .. last.daysSinceLastUse :
              LET before == applyConfidenceDecay(last.confidence, earlier)
              IN  FracLe(last.result[1], last.result[2], before[1], before[2])

\* two days of decay that strictly lowered a confidence and stayed above the floor
C16_Witness ==
    /\ Decayed
    /\ last.daysSinceLastUse = 2
    /\ last.result # Dec(10)
    /\ ~FracLe(last.confidence[1], last.confidence[2], last.result[1], last.result[2])

\* the approved corrections learned so far for the vendor on a field that Of accepts
ApprovedObservations(vendorName, Of(_)) ==
    Cardinality({i \in DOMAIN resolution_memories :
                    /\ resolution_memories[i].vendorName = vendorName
                    /\ resolution_memories[i].resolution = "approved"
                    /\ Of(resolution_memories[i].discrepancyType)})

IsTaxField(field) == field \in {<<"taxTotal">>, <<"grossTotal">>}

High(confidence) == RLt(Dec(60), confidence)

\* C17: no learned memory (correction memory, field mapping, tax behaviour,
\* SKU mapping) has a confidence above 0.60 before at least 3 approved
\* corrections have been learned for it.
C17_NoHighConfidenceBeforeThreeObservations ==
    /\ \A i \in DOMAIN correction_memories :
          LET c == correction_memories[i]
              OfField(field) == field = c.fieldName
          IN  High(c.confidence) => ApprovedObservations(c.vendorName, OfField) >= 3
    /\ \A i \in DOMAIN vendor_memories :
          LET v == vendor_memories[i]
          IN  /\ \A j \in DOMAIN v.fieldMappings :
                    LET OfTarget(field) == field = <<v.fieldMappings[j].targetField>>
                    IN  High(v.fieldMappings[j].confidence)
                            => ApprovedObservations(v.vendorName, OfTarget) >= 3
              /\ v.taxBehavior # Null /\ High(v.taxBehavior[1].confidence)
                    => ApprovedObservations(v.vendorName, IsTaxField) >= 3
              /\ \A j \in DOMAIN v.skuMappings :
                    High(v.skuMappings[j].confidence)
                        => ApprovedObservations(v.vendorName, isSkuField) >= 3

\* none of the escalation rules applies to a processInvoice result
NoEscalationRule(result) ==
    /\ result.memories.potentialDuplicate = Null
    /\ result.memories.vendorMemory # Null
    /\ result.memories.vendorMemory[1].usageCount >= 2
    /\ \A i \in DOMAIN result.proposedCorrections :
          /\ RLe(Dec(40), result.proposedCorrections[i].confidence)
          /\ result.proposedCorrections[i].autoApplied
    /\ ~hasConflictingMemories(result.memories)
    /\ checkMissingFields(result.normalizedInvoice, result.proposedCorrections) = <<>>

DecideAgain(result, originalConfidence) ==
    makeDecision(result.normalizedInvoice, result.proposedCorrections, result.memories, originalConfidence)

ReviewIffBelowAutoCorrect(d) ==
    /\ d.requiresHumanReview <=> RLt(d.confidenceScore, Dec(60))
    /\ d.escalationReasons =
          IF RLt(d.confidenceScore, Dec(60))
          THEN <<<<"Overall confidence too low", d.confidenceScore>>>> ELSE <<>>

RejectedCurrencyLearnStep ==
    /\ last'.op = "applyHumanCorrection"
    /\ last'.correction.finalDecision = "rejected"
    /\ \E i \in DOMAIN last'.correction.corrections :
          last'.correction.corrections[i].field = <<"currency">>

\* no set_currency correction memory of the vendor is weakened by the step
CurrencyMemoryNotWeakened ==
    \A i \in DOMAIN correction_memories' :
        /\ correction_memories'[i].vendorName = last'.invoice.vendor
        /\ correction_memories'[i].correctionType = "set_currency"
        => IF i \in DOMAIN correction_memories
           THEN /\ correction_memories'[i].failureCount = correction_memories[i].failureCount
                /\ RLe(correction_memories[i].confidence, correction_memories'[i].confidence)
           ELSE /\ correction_memories'[i].failureCount = 0
                /\ RLe(Dec(60), correction_memories'[i].confidence)

\* C19: a rejected Learn call that contains a currency correction never
\* weakens the vendor's set_currency correction memory: its failureCount
\* does not increase and its confidence does not decrease (a memory created
\* by the call keeps failureCount 0 and its initial confidence).
C19_RejectedLearnKeepsCurrencyMemory ==
    [][RejectedCurrencyLearnStep => CurrencyMemoryNotWeakened]_vars

\* the correction matches one of the six update rules of Learn
RuleMatches(invoice, correction) ==
    \/ correction.field = <<"serviceDate">> /\ mentions(correction.reason, "leistungsdatum")
    \/ /\ IsTaxField(correction.field)
       /\ \/ mentions(correction.reason, "vat") \/ mentions(correction.reason, "mwst")
          \/ mentions(correction.reason, "recalculated")
    \/ correction.field \in {<<"currency">>, <<"poNumber">>, <<"discountTerms">>}
    \/ /\ isSkuField(correction.field)
       /\ correction.field[2] + 1 \in DOMAIN invoice.fields.lineItems
       /\ invoice.fields.lineItems[correction.field[2] + 1].description # <<>>

\* C20: after a Learn call, every correction of the batch that matches an
\* update rule has a correction-memory record for that vendor and field; a
\* line-item SKU correction has a map_sku record.
C20_EveryRuleLeavesCorrectionMemory ==
    Learned =>
        \A i \in DOMAIN last.correction.corrections :
            LET c == last.correction.corrections[i]
            IN  RuleMatches(last.invoice, c) =>
                    \E k \in DOMAIN correction_memories :
                        /\ correction_memories[k].vendorName = last.invoice.vendor
                        /\ correction_memories[k].fieldName = c.field
                        /\ isSkuField(c.field) => correction_memories[k].correctionType = "map_sku"

RejectedShareAtLeast40(resolutions) ==
    LET rejected == Cardinality({i \in DOMAIN resolutions : resolutions[i].resolution = "rejected"})
    IN  Len(resolutions) >= 3 /\ rejected * 10 >= 4 * Len(resolutions)

\* C21: Decide's conflicting-memory rule triggers review whenever the vendor
\* has at least 3 resolution records of which at least 40% (exactly 40%
\* included) are rejected, or a recalled correction memory has failureCount
\* above successCount.
C21_ConflictingMemoriesTriggerReview ==
    /\ Processed
    /\ \/ RejectedShareAtLeast40(last.result.memories.resolutionMemories)
       \/ \E i \in DOMAIN last.result.memories.correctionMemories :
             last.result.memories.correctionMemories[i].failureCount
                 > last.result.memories.correctionMemories[i].successCount
    => /\ last.result.requiresHumanReview
       /\ HasReason(last.result.escalationReasons, CONFLICT_REASON)

ProposesCurrency(corrections) ==
    \E i \in DOMAIN corrections : corrections[i].field = <<"currency">>

\* C22: a document that arrives with no currency and for which Apply
\* proposes no currency correction is sent to review with an escalation
\* reason naming the missing currency field.
C22_MissingCurrencyRequiresReview ==
    /\ Processed
    /\ last.invoice.fields.currency = ""
    /\ ~ProposesCurrency(last.result.proposedCorrections)
    => /\ last.result.requiresHumanReview
       /\ HasReason(last.result.escalationReasons, <<"Missing critical field", "currency">>)

CurrencyCorrections(corrections) ==
    Filter(corrections, {c \in Range(corrections) : c.field = <<"currency">>})

\* the vendor default currency recalled for the result, "" when there is none
RecalledDefaultCurrency(result) ==
    IF result.memories.vendorMemory = Null THEN ""
    ELSE result.memories.vendorMemory[1].defaultCurrency

\* C23: when the document's currency is missing and a vendor default
\* currency or a currency code in the free text is available, Apply lists
\* exactly one currency correction: the vendor default at 0.75 when it
\* exists, otherwise the free-text value at 0.70, never auto-applied,
\* whether or not a vendor memory exists.
C23_MissingCurrencyIsProposedOnce ==
    /\ Processed
    /\ last.invoice.fields.currency = ""
    /\ \/ RecalledDefaultCurrency(last.result) # ""
       \/ extractCurrencyFromRawText(last.invoice.rawText) # ""
    => /\ Len(CurrencyCorrections(last.result.proposedCorrections)) = 1
       /\ LET c == CurrencyCorrections(last.result.proposedCorrections)[1]
          IN  /\ ~c.autoApplied
              /\ IF RecalledDefaultCurrency(last.result) # ""
                 THEN /\ c.proposedValue = VStr(RecalledDefaultCurrency(last.result))
                      /\ c.confidence = Dec(75)
                 ELSE /\ c.proposedValue = VStr(extractCurrencyFromRawText(last.invoice.rawText))
                      /\ c.confidence = Dec(70)

\* the same restricted to vendors that have a memory, as the code does it
C23_WithVendorMemory ==
    Processed /\ last.result.memories.vendorMemory # Null => C23_MissingCurrencyIsProposedOnce

\* the ledger entry satisfies condition (a) or (b) for the document
EntryMatches(entry, invoice) ==
    /\ entry.vendorName = invoice.vendor
    /\ entry.invoiceNumber = invoice.fields.invoiceNumber
    /\ \/ /\ parseDate(entry.invoiceDate) # Null
          /\ parseDate(invoice.fields.invoiceDate) # Null
          /\ Abs(parseDate(invoice.fields.invoiceDate)[1] - parseDate(entry.invoiceDate)[1]) <= 7
          /\ Abs(entry.grossTotal - invoice.fields.grossTotal) * 100 <= entry.grossTotal
       \/ entry.hash = generateInvoiceHash(invoice)

\* C24: the Duplicate Guard flags a document whenever any ledger entry has
\* the same vendor and number with a date within 7 days and a total within
\* 1%, or an equal fingerprint, also when a later entry with the same vendor
\* and number but another date / total has been recorded since.
C24_AnyMatchingEntryIsFlagged ==
    /\ Processed
    /\ \E i \in DOMAIN processed_invoices : EntryMatches(processed_invoices[i], last.invoice)
    => last.result.memories.potentialDuplicate # Null

UnparsableDate(entry, invoice) ==
    parseDate(entry.invoiceDate) = Null \/ parseDate(invoice.fields.invoiceDate) = Null

SameVendorAndNumber(entry, invoice) ==
    entry.vendorName = invoice.vendor /\ entry.invoiceNumber = invoice.fields.invoiceNumber

\* C25: when the incoming or the recorded invoice date cannot be parsed the
\* fingerprint check still decides: a document with the same vendor, number
\* and gross total as a ledger entry is reported as a duplicate, and a
\* document whose gross total differs from every ledger entry of its vendor
\* and number is not.
C25_UnparsableDateLeavesFingerprintCheck ==
    Processed =>
        /\ \A i \in DOMAIN processed_invoices :
              /\ SameVendorAndNumber(processed_invoices[i], last.invoice)
              /\ UnparsableDate(processed_invoices[i], last.invoice)
              /\ processed_invoices[i].grossTotal = last.invoice.fields.grossTotal
              => last.result.memories.potentialDuplicate # Null
        /\ (\A i \in DOMAIN processed_invoices :
              SameVendorAndNumber(processed_invoices[i], last.invoice)
              => /\ UnparsableDate(processed_invoices[i], last.invoice)
                 /\ processed_invoices[i].grossTotal # last.invoice.fields.grossTotal)
           => last.result.memories.potentialDuplicate = Null

\* the ledger after the step is the ledger before it, followed by added
IsExtension(before, after, added) ==
    /\ Len(after) = Len(before) + added
    /\ \A i \in DOMAIN before : after[i] = before[i]

\* a Learn step adds the invoice's entry to the ledger, a processInvoice step
\* adds none and recalls a duplicate only from an entry with the invoice's
\* vendor and number
LedgerStep ==
    /\ last'.op = "applyHumanCorrection"
       => /\ IsExtension(processed_invoices, processed_invoices', 1)
          /\ SameVendorAndNumber(processed_invoices'[Len(processed_invoices')], last'.invoice)
    /\ last'.op = "processInvoice"
       => /\ IsExtension(processed_invoices, processed_invoices', 0)
          /\ last'.result.memories.potentialDuplicate # Null
             => \E i \in DOMAIN processed_invoices :
                   SameVendorAndNumber(processed_invoices[i], last'.invoice)

\* every row of the table is still there, unchanged, after the step
RowsKept(table, tableAfter) ==
    \A i \in DOMAIN table : i \in DOMAIN tableAfter /\ tableAfter[i] = table[i]

IsReset == last'.op = "resetAllMemories"

\* C26 as claimed: the processed-invoice ledger grows by exactly one entry
\* per Learn call and by none on processInvoice, entries are never changed
\* or removed, and a potential duplicate is recalled only for a document
\* whose vendor and invoice number an earlier Learn call has recorded.
C26_LedgerEntriesNeverRemoved ==
    [][LedgerStep /\ RowsKept(processed_invoices, processed_invoices')]_vars

\* C26: the processed-invoice ledger grows by exactly one entry, the
\* invoice's, per Learn call and by none on processInvoice; entries are
\* never changed, and removed only by resetAllMemories, which empties the
\* ledger; a potential duplicate is recalled only for a document whose
\* vendor and invoice number a Learn call since the last reset has recorded.
C26_LedgerGrowsOnlyByLearn ==
    [][/\ LedgerStep
       /\ IF IsReset THEN processed_invoices' = <<>>
          ELSE RowsKept(processed_invoices, processed_invoices')]_vars

\* a duplicate recalled from a ledger of two entries
C26_Witness ==
    /\ Processed
    /\ Len(processed_invoices) = 2
    /\ last.result.memories.potentialDuplicate # Null
    /\ last.result.memories.potentialDuplicate[1] = processed_invoices[2]

\* the resolution records from position first on are those of the batch, in order
RecordsOfBatch(rm, first, invoice, correction) ==
    \A k \in DOMAIN correction.corrections :
        /\ rm[first + k].invoiceId = invoice.invoiceId
        /\ rm[first + k].vendorName = invoice.vendor
        /\ rm[first + k].discrepancyType = correction.corrections[k].field
        /\ rm[first + k].correctedValue = correction.corrections[k].to
        /\ rm[first + k].resolution = correction.finalDecision

\* a Learn step appends the records of its batch, a processInvoice step none
ResolutionStep ==
    /\ last'.op = "applyHumanCorrection"
       => /\ IsExtension(resolution_memories, resolution_memories',
                         Len(last'.correction.corrections))
          /\ RecordsOfBatch(resolution_memories', Len(resolution_memories),
                            last'.invoice, last'.correction)
    /\ last'.op = "processInvoice"
       => IsExtension(resolution_memories, resolution_memories', 0)

\* C27 as claimed: a Learn call adds exactly one resolution record per field
\* correction of its batch, carrying the batch's final decision, whichever
\* update rule matched or none, and no operation modifies or deletes an
\* existing resolution record.
C27_ResolutionRecordsNeverDeleted ==
    [][ResolutionStep /\ RowsKept(resolution_memories, resolution_memories')]_vars

\* C27: resolution memory is append-only: a Learn call adds exactly one
\* record per field correction of its batch, carrying the batch's final
\* decision, whether an update rule matched the correction or not; no
\* operation modifies an existing record, and only resetAllMemories, which
\* empties the table, deletes one.
C27_ResolutionMemoryAppendOnly ==
    [][/\ ResolutionStep
       /\ IF IsReset THEN resolution_memories' = <<>>
          ELSE RowsKept(resolution_memories, resolution_memories')]_vars

\* a second Learn call, rejected, whose batch has a correction no rule matches
C27_Witness ==
    /\ Learned
    /\ last.correction.finalDecision = "rejected"
    /\ Len(last.correction.corrections) = 2
    /\ \E k \in DOMAIN last.correction.corrections :
          ~RuleMatches(last.invoice, last.correction.corrections[k])
    /\ Len(resolution_memories) > Len(last.correction.corrections)

VendorNames(vm) == {vm[i].vendorName : i \in DOMAIN vm}

IsFreshVendorMemory(memory) ==
    /\ memory.confidence = Dec(50)
    /\ memory.usageCount = 0
    /\ memory.fieldMappings = <<>>
    /\ memory.taxBehavior = Null
    /\ memory.skuMappings = <<>>

\* C28: there is at most one vendor memory per vendor name; processInvoice
\* creates none; a Learn call creates none but its vendor's, which exists
\* after the call even for an empty batch, and then, if new, with confidence
\* 0.5, usageCount 0 and no sub-memories; a vendor memory is deleted by
\* resetAllMemories only.
C28_OneVendorMemoryPerName ==
    [][/\ \A i, j \in DOMAIN vendor_memories' :
             vendor_memories'[i].vendorName = vendor_memories'[j].vendorName => i = j
       /\ last'.op = "processInvoice" => VendorNames(vendor_memories') = VendorNames(vendor_memories)
       /\ last'.op = "applyHumanCorrection"
          => /\ VendorNames(vendor_memories')
                  = VendorNames(vendor_memories) \cup {last'.invoice.vendor}
             /\ (/\ last'.invoice.vendor \notin VendorNames(vendor_memories)
                 /\ last'.correction.corrections = <<>>)
                => IsFreshVendorMemory(getVendorMemory(vendor_memories', last'.invoice.vendor)[1])
       /\ IF IsReset THEN vendor_memories' = <<>>
          ELSE VendorNames(vendor_memories) \subseteq VendorNames(vendor_memories')]_vars

\* a Learn call with an empty batch has created the vendor's memory
C28_Witness ==
    /\ Learned
    /\ last.correction.corrections = <<>>
    /\ Len(processed_invoices) = 1
    /\ getVendorMemory(vendor_memories, last.invoice.vendor) # Null
    /\ IsFreshVendorMemory(getVendorMemory(vendor_memories, last.invoice.vendor)[1])

\* clamp(0.1, 0.95, 0.3 + adjustedRate * 0.65 * observationFactor)
WeightedConfidence(successCount, failureCount) ==
    RMax(Dec(10), RMin(Dec(95),
        RAdd(Dec(30),
             RMul(RMul(Rat(successCount, successCount + 2 * failureCount), Dec(65)),
                  RMin(Rat(1, 1), Rat(successCount + failureCount, 3))))))

\* C29: every success / failure-counted confidence that Learn has recomputed
\* (a correction memory's, and a vendor field mapping's once it has been
\* observed a second time) is clamp(0.1, 0.95, 0.3 + adjustedRate * 0.65 *
\* observationFactor) with adjustedRate = successCount / (successCount +
\* 2 * failureCount) and observationFactor = min(1, observations / 3).
C29_RecomputedConfidenceWeighsRejectionsTwice ==
    /\ \A i \in DOMAIN correction_memories :
          correction_memories[i].successCount + correction_memories[i].failureCount >= 2
          => correction_memories[i].confidence
                = WeightedConfidence(correction_memories[i].successCount,
                                     correction_memories[i].failureCount)
    /\ \A i \in DOMAIN vendor_memories :
          \A j \in DOMAIN vendor_memories[i].fieldMappings :
              LET m == vendor_memories[i].fieldMappings[j]
              IN  m.successCount + m.failureCount >= 2
                  => m.confidence = WeightedConfidence(m.successCount, m.failureCount)

\* the step is a rejected Learn call
RejectedLearnStep ==
    last'.op = "applyHumanCorrection" /\ last'.correction.finalDecision = "rejected"

\* C30: a rejected Learn call never increases the successCount of a
\* correction memory for a non-currency field and creates none with
\* successCount of 1 or more.
C30_RejectedLearnNeverCountsSuccess ==
    [][RejectedLearnStep =>
          \A i \in DOMAIN correction_memories' :
              correction_memories'[i].fieldName # <<"currency">>
              => IF i \in DOMAIN correction_memories
                 THEN correction_memories'[i].successCount
                          <= correction_memories[i].successCount
                 ELSE correction_memories'[i].successCount = 0]_vars

\* the observations a correction memory has counted
Observations(m) == m.successCount + m.failureCount

\* how many corrections of the batch address the field
CorrectionsOn(corrections, fieldName) ==
    Cardinality({k \in DOMAIN corrections : corrections[k].field = fieldName})

\* C31: each field correction processed by Learn counts as exactly one
\* observation: a Learn call raises successCount + failureCount of a
\* correction memory by at most the number of corrections of the batch on its
\* field (a memory created by the call starts from 0), so a memory created by
\* the first correction for its field ends the call with 1 observation.
C31_OneObservationPerCorrection ==
    [][last'.op = "applyHumanCorrection" =>
          \A i \in DOMAIN correction_memories' :
              Observations(correction_memories'[i])
                  - (IF i \in DOMAIN correction_memories
                     THEN Observations(correction_memories[i]) ELSE 0)
              <= CorrectionsOn(last'.correction.corrections,
                               correction_memories'[i].fieldName)]_vars

\* the corrections of a result on one field
CorrectionsOf(result, field) ==
    {k \in DOMAIN result.proposedCorrections :
        result.proposedCorrections[k].field = field}

\* Apply recalculated the totals: it lists a grossTotal correction
RecalculatedTotals(result) == CorrectionsOf(result, <<"grossTotal">>) # {}

\* C32: when the vendor memory records VAT-inclusive behaviour and Apply
\* recalculates the totals, there is one grossTotal and one taxTotal
\* correction, both with the tax behaviour's confidence and the same
\* autoApplied flag, the proposed tax is the proposed gross minus the net
\* total, and the normalized document carries both proposed values (when
\* auto-applied) or both original values (when not), never one of each.
C32_TaxCorrectionsAreLinked ==
    Processed /\ RecalculatedTotals(last.result) =>
        LET r == last.result
            f == last.invoice.fields
            n == r.normalizedInvoice
        IN  /\ r.memories.vendorMemory # Null
            /\ r.memories.vendorMemory[1].taxBehavior # Null
            /\ r.memories.vendorMemory[1].taxBehavior[1].isInclusive
            /\ Cardinality(CorrectionsOf(r, <<"grossTotal">>)) = 1
            /\ Cardinality(CorrectionsOf(r, <<"taxTotal">>)) = 1
            /\ \A g \in CorrectionsOf(r, <<"grossTotal">>), t \in CorrectionsOf(r, <<"taxTotal">>) :
                  LET gross == r.proposedCorrections[g]
                      tax == r.proposedCorrections[t]
                  IN  /\ gross.confidence = r.memories.vendorMemory[1].taxBehavior[1].confidence
                      /\ tax.confidence = gross.confidence
                      /\ tax.autoApplied = gross.autoApplied
                      /\ gross.proposedValue # VNum(f.grossTotal)
                      /\ tax.proposedValue = VNum(gross.proposedValue[2] - n.netTotal)
                      /\ IF gross.autoApplied
                         THEN /\ VNum(n.grossTotal) = gross.proposedValue
                              /\ VNum(n.taxTotal) = tax.proposedValue
                              /\ n.taxTotal = n.grossTotal - n.netTotal
                         ELSE /\ n.grossTotal = f.grossTotal
                              /\ n.taxTotal = f.taxTotal

\* the totals were recalculated and auto-applied, with a tax that differs
\* from the extracted one
C32_Witness ==
    /\ Processed /\ RecalculatedTotals(last.result)
    /\ \E g \in CorrectionsOf(last.result, <<"grossTotal">>) :
          last.result.proposedCorrections[g].autoApplied
    /\ last.result.normalizedInvoice.taxTotal # last.invoice.fields.taxTotal
    /\ last.result.normalizedInvoice.grossTotal # last.invoice.fields.grossTotal

\* the resolution records of the vendor's discountTerms corrections, oldest
\* first
TermsCorrectionsOf(vendorName) ==
    Filter(resolution_memories,
           {r \in Range(resolution_memories) :
               r.vendorName = vendorName /\ r.discrepancyType = <<"discountTerms">>})

\* what the last discountTerms correction for the vendor set
LastCorrectedTerms(vendorName) ==
    IF TermsCorrectionsOf(vendorName) = <<>> THEN ""
    ELSE TermsCorrectionsOf(vendorName)[Len(TermsCorrectionsOf(vendorName))].correctedValue

\* the payment terms Recall found for the vendor, "" when it found none
RecalledPaymentTerms(result) ==
    IF result.memories.vendorMemory = Null THEN ""
    ELSE result.memories.vendorMemory[1].paymentTerms

\* C33: the stored payment terms are what the last discountTerms correction
\* set, approved or rejected.  For a document without discount terms, Apply
\* writes stored terms into the normalized document and lists no
\* discountTerms correction; a discountTerms correction is listed only when
\* the terms are still absent after that, and then it is the free-text one:
\* confidence 0.8, not auto-applied.
C33_StoredPaymentTermsAppliedDirectly ==
    /\ \A i \in DOMAIN vendor_memories :
          vendor_memories[i].paymentTerms = LastCorrectedTerms(vendor_memories[i].vendorName)
    /\ Processed =>
          LET r == last.result
              own == last.invoice.fields.discountTerms
              stored == RecalledPaymentTerms(r)
          IN  /\ own = "" /\ stored # ""
                  => /\ r.normalizedInvoice.discountTerms = stored
                     /\ CorrectionsOf(r, <<"discountTerms">>) = {}
              /\ \A k \in CorrectionsOf(r, <<"discountTerms">>) :
                    /\ own = "" /\ stored = ""
                    /\ r.proposedCorrections[k].proposedValue
                          = VStr(extractPaymentTerms(last.invoice.rawText))
                    /\ r.proposedCorrections[k].confidence = Dec(80)
                    /\ ~r.proposedCorrections[k].autoApplied
              /\ own = "" /\ stored = "" /\ extractPaymentTerms(last.invoice.rawText) # ""
                  => CorrectionsOf(r, <<"discountTerms">>) # {}

\* terms set by a rejected batch, after an earlier batch had set other
\* terms, are applied to a document whose free text carries terms too
C33_Witness ==
    /\ Processed
    /\ last.invoice.fields.discountTerms = ""
    /\ extractPaymentTerms(last.invoice.rawText) # ""
    /\ Len(TermsCorrectionsOf(PARTS)) >= 2
    /\ TermsCorrectionsOf(PARTS)[Len(TermsCorrectionsOf(PARTS))].resolution = "rejected"
    /\ TermsCorrectionsOf(PARTS)[1].correctedValue # LastCorrectedTerms(PARTS)
    /\ last.result.normalizedInvoice.discountTerms = LastCorrectedTerms(PARTS)
    /\ last.result.normalizedInvoice.discountTerms # extractPaymentTerms(last.invoice.rawText)

\* the recalled memories with the vendor memory kept or dropped and the
\* potential duplicate replaced
MemoriesWith(memories, keepVendorMemory, potentialDuplicate) ==
    [memories EXCEPT !.vendorMemory = IF keepVendorMemory THEN @ ELSE Null,
                     !.potentialDuplicate = potentialDuplicate]

\* no duplicate, or any entry of the ledger as the potential duplicate
DuplicateFlags == {Null} \cup {Some(processed_invoices[j]) : j \in DOMAIN processed_invoices}

\* the score Decide computes for the corrections of the latest result
ScoreAgain(base, keepVendorMemory, potentialDuplicate) ==
    calculateOverallConfidence_decide(base,
        MemoriesWith(last.result.memories, keepVendorMemory, potentialDuplicate),
        last.result.proposedCorrections)

\* C34: Decide's overall confidence score is within [0.1, 1.0] and at most
\* 0.5 with a potential duplicate: for the score of every processInvoice
\* result, and for the score of its corrections under every base confidence,
\* with or without the vendor memory, with or without a duplicate.
C34_OverallConfidenceBounded ==
    Processed =>
        /\ RLe(Dec(10), last.result.confidenceScore)
        /\ RLe(last.result.confidenceScore, Rat(1, 1))
        /\ last.result.memories.potentialDuplicate # Null
              => RLe(last.result.confidenceScore, Dec(50))
        /\ \A base \in BaseConfidences, keep \in BOOLEAN, dup \in DuplicateFlags :
              /\ RLe(Dec(10), ScoreAgain(base, keep, dup))
              /\ RLe(ScoreAgain(base, keep, dup), Rat(1, 1))
              /\ dup # Null => RLe(ScoreAgain(base, keep, dup), Dec(50))

\* corrections auto-applied at confidence 1.0 next to pending ones: for
\* base confidence 1.0 the score is 0.9 without a duplicate and 0.45 with one
C34_Witness ==
    /\ Processed
    /\ \E k \in DOMAIN last.result.proposedCorrections :
          /\ last.result.proposedCorrections[k].autoApplied
          /\ last.result.proposedCorrections[k].confidence = Rat(1, 1)
    /\ ScoreAgain(Dec(100), TRUE, Null) = Dec(90)
    /\ \E dup \in DuplicateFlags :
          dup # Null /\ ScoreAgain(Dec(100), TRUE, dup) = Dec(45)

\* Decide on the normalized document and the corrections of the latest
\* result, for another base confidence and other recalled memories
DecideWith(base, keepVendorMemory, potentialDuplicate) ==
    makeDecision(last.result.normalizedInvoice, last.result.proposedCorrections,
                 MemoriesWith(last.result.memories, keepVendorMemory, potentialDuplicate),
                 base)

ReviewIffReasons(d) == d.requiresHumanReview <=> d.escalationReasons # <<>>

\* C35: in every Decide result, requiresReview is true iff escalationReasons
\* is non-empty: in every processInvoice result, and in Decide run on its
\* corrections for every base confidence, with or without the vendor memory,
\* with or without a potential duplicate.
C35_ReviewIffEscalationReasons ==
    Processed =>
        /\ ReviewIffReasons(last.result)
        /\ \A base \in BaseConfidences, keep \in BOOLEAN, dup \in DuplicateFlags :
              ReviewIffReasons(DecideWith(base, keep, dup))

\* a document that is auto-processed with no reason, and for a lower base
\* confidence sent to review by the overall score alone, with one reason
C35_Witness ==
    /\ Processed
    /\ ~last.result.requiresHumanReview
    /\ last.result.escalationReasons = <<>>
    /\ \E base \in BaseConfidences :
          /\ DecideWith(base, TRUE, Null).requiresHumanReview
          /\ Len(DecideWith(base, TRUE, Null).escalationReasons) = 1
    /\ \E dup \in DuplicateFlags :
          Len(DecideWith(Dec(100), FALSE, dup).escalationReasons) >= 2

\* the vendor's usageCount in a vendor table, 0 without a vendor memory
UsageCount(vm, vendorName) ==
    IF getVendorMemory(vm, vendorName) = Null THEN 0
    ELSE getVendorMemory(vm, vendorName)[1].usageCount

\* C36: every Learn call that contains at least one field correction
\* increases the vendor's usageCount (so two such calls lift the vendor over
\* the new-vendor rule's threshold of 2 uses).
C36_LearnWithCorrectionCountsAsUse ==
    [][last'.op = "applyHumanCorrection" /\ last'.correction.corrections # <<>> =>
          UsageCount(vendor_memories', last'.invoice.vendor)
              > UsageCount(vendor_memories, last'.invoice.vendor)]_vars

\* index.ts getAllMemories: the three lists a finished call has read
AllMemories(call) ==
    [vendorMemories     |-> call.result[1],
     correctionMemories |-> call.result[2],
     resolutionMemories |-> call.result[3]]

\* the vendors for which a call of the round creates a vendor memory
VendorsOfRound ==
    {calls[c].vendorName : c \in {k \in DOMAIN calls : calls[k].op = "applyHumanCorrection"}}

\* C37: after resetAllMemories the next use of the store sees an empty
\* store.  The Database object a call started right after the reset works
\* on has no correction memory, no resolution memory, no ledger entry, and
\* no vendor memory but the fresh ones the calls of that round create; a
\* getAllMemories call on its own returns three empty lists, and an
\* applyHumanCorrection call on its own finds no vendor memory for its vendor
\* (the vendor is new), whatever the store held before the reset.
C37_ResetEmptiesStore ==
    \A c \in DOMAIN calls :
        calls[c].afterReset =>
            /\ calls[c].handle # 0 =>
                  LET d == databases[calls[c].handle]
                  IN  /\ d.cm = <<>> /\ d.rm = <<>> /\ d.pi = <<>>
                      /\ \A i \in DOMAIN d.vm :
                            /\ IsFreshVendorMemory(d.vm[i])
                            /\ d.vm[i].vendorName \in VendorsOfRound
            /\ Len(calls) = 1 /\ Finished(c) =>
                  IF calls[c].op = "getAllMemories"
                  THEN AllMemories(calls[c])
                          = [vendorMemories |-> <<>>, correctionMemories |-> <<>>,
                             resolutionMemories |-> <<>>]
                  ELSE /\ calls[c].result = Null
                       /\ isNewVendor([vendorMemory |-> calls[c].result])

\* getAllMemories has returned three empty lists after a reset that dropped
\* a store with a vendor memory, a correction memory, a resolution record
\* and a ledger entry
C37_Witness ==
    /\ Len(calls) = 1 /\ Finished(1) /\ calls[1].afterReset
    /\ calls[1].op = "getAllMemories"
    /\ Len(calls[1].result) = 3
    /\ \E i \in DOMAIN databases :
          /\ i # calls[1].handle
          /\ databases[i].vm # <<>> /\ databases[i].cm # <<>>
          /\ databases[i].rm # <<>> /\ databases[i].pi # <<>>

\* C38: between a lazy open and the next reset there is one connection:
\* every call is given the Database object that db names, so a vendor memory
\* a finished call has created is in the database later calls are given.
C38_OneConnection ==
    /\ \A c \in DOMAIN calls : calls[c].handle # 0 => calls[c].handle = db
    /\ \A c \in DOMAIN calls :
          Finished(c) /\ calls[c].op = "applyHumanCorrection" /\ db # 0
              => getVendorMemory(databases[db].vm, calls[c].vendorName) # Null

====
